---- MODULE Spec2Model ----
(***************************************************************************)
(* Request tracking, full-prayer generation and input validation of the    *)
(* prayer generator, in its two UI variants:                               *)
(*   rich   : the App component of src/services/geminiService.ts (l. 903)  *)
(*   simple : the App component of src/App.tsx (l. 381)                    *)
(* The event loop is single threaded: every action below is one UI         *)
(* callback or one continuation of an async handler after an await.        *)
(***************************************************************************)
EXTENDS Integers, Sequences, FiniteSets, TLC

\* ---------------------------------------------------------------- bounds
MaxSegment == 2      \* segment slots 1..MaxSegment are exercised
MaxCalls == 2        \* async calls dispatched in one behaviour
MaxClock == 2        \* largest Date.now() reading
MaxAttachments == 2  \* files attached to one settings record
MaxRecognitions == 2 \* recognition objects created in one behaviour
MaxPcmLen == 2       \* bytes of PCM data handed to createWavBlob
MaxReaders == 2      \* FileReader objects created in one behaviour

\* ------------------------------------------------------ program constants
NumSegments == 6     \* searchingStates has the keys 1..6
CancelToken == 0     \* value stored by every cancel
SpeechSlot == NumSegments + 1
DownloadSlot == NumSegments + 2
NoSlot == 0          \* full-prayer generation has no tracker slot
Undefined == -1      \* activeRequestsRef.current[i] before the first begin
Null == 0            \* audioSourceRef.current === null
DefaultPhrase == 0   \* the text of a field in DEFAULT_REP_SETTINGS
NoText == 0          \* generatedPrayer === ''
None == "none"           \* nothing there yet
Other == "etc"          \* the sentinel of the select boxes (U+AE30 U+D0C0)

Segments == 1..MaxSegment
Slots == Segments \cup {SpeechSlot, DownloadSlot}
Texts == {"", "x"}
Variants == {"rich", "simple"}
SettingsViews == {"REP_SETTINGS", "FUN_SETTINGS"}
SERVICE_TYPES == {"SundayService", Other}

keys == <<"graceAndSalvation", "confessionAndForgiveness", "nationWellbeing",
          "churchNeeds", "specialGraceAndHealing", "preacherFilling">>

DEFAULT_REP_SETTINGS ==
  [churchName |-> "", pastorName |-> "", serviceType |-> "SundayService",
   otherServiceType |-> "", churchSeason |-> "NoSeason", otherChurchSeason |-> "",
   graceAndSalvation |-> DefaultPhrase, confessionAndForgiveness |-> DefaultPhrase,
   nationWellbeing |-> DefaultPhrase, churchNeeds |-> DefaultPhrase,
   specialGraceAndHealing |-> DefaultPhrase, preacherFilling |-> DefaultPhrase]

DEFAULT_FUN_SETTINGS == [deceasedName |-> ""]

VARIABLES
  variant,            \* which App component is mounted
  now,                \* the reading Date.now() returns
  view,               \* view (rich) / currentView (simple)
  repSettings,        \* repSettings (rich) / repData (simple)
  funSettings,        \* funSettings (rich) / funData (simple)
  attemptedSubmit,
  activeRequestsRef,  \* activeRequestsRef.current
  searchingStates,    \* searchingStates (rich) / searchStatus (simple)
  speechRequestRef,
  isPreparingSpeech,
  isSpeaking,
  audioSourceRef,     \* the call whose buffer source the ref holds, or Null
  playing,            \* buffer sources started and neither stopped nor ended
  downloadRequestRef,
  isDownloading,
  downloaded,         \* calls whose .wav link was clicked
  isLoading,          \* isLoading (rich) / isProcessing (simple)
  generatedPrayer,    \* generatedPrayer (rich) / resultPrayer (simple)
  sources,            \* sources (rich) / groundingSources (simple)
  unhandledRejection, \* a handler's promise rejected with nobody catching it
  calls,              \* every async call dispatched so far, in dispatch order
  cancelled,          \* history: the calls that were awaiting their response when
                      \* their slot was cancelled, until the slot's next begin
  alertMsg,           \* the alert() shown by the last step, "" if none
  repAttachments,     \* repSettings.attachments (rich) / repData.attachments
  funAttachments,     \* funSettings.attachments (rich) / funData.attachments
  readers,            \* the FileReader objects created, with their file and status
  svcCall,            \* the call of a service function under examination
  svcResult,          \* what that call built and how its promise settled
  pcmData,            \* createWavBlob: the bytes of its first argument
  sampleRate,         \* createWavBlob: its second argument, as 16-bit halves
  wavBlob,            \* createWavBlob: the bytes of the Blob it returned
  speechRecognition,  \* window.SpeechRecognition || window.webkitSpeechRecognition
  sttEntry,           \* the speech-input entry point that is rendered
  isListening,        \* isListeningSTT / isMicActive / isListening
  recognitionInstance,\* recognitionInstance.current (simple variant)
  recognitions,       \* the recognition objects created, with their status
  sttValue,           \* the value of the field speech input writes to
  activated           \* the last step was a press of the microphone button

settingsVars == <<repSettings, funSettings, attemptedSubmit>>
segmentVars == <<activeRequestsRef, searchingStates>>
speechVars == <<speechRequestRef, isPreparingSpeech, isSpeaking, audioSourceRef,
                playing>>
downloadVars == <<downloadRequestRef, isDownloading, downloaded>>
genVars == <<isLoading, generatedPrayer, sources, unhandledRejection>>
attachmentVars == <<repAttachments, funAttachments, readers>>
serviceVars == <<svcCall, svcResult>>
wavVars == <<pcmData, sampleRate, wavBlob>>
sttVars == <<speechRecognition, sttEntry, isListening, recognitionInstance,
             recognitions, sttValue, activated>>
\* the state outside the request tracker and the generation handlers
auxVars == <<attachmentVars, serviceVars, wavVars, sttVars>>
vars == <<variant, now, view, settingsVars, segmentVars, speechVars, downloadVars,
          genVars, calls, cancelled, alertMsg, auxVars>>

\* ---------------------------------------------------------------- helpers
\* String.prototype.trim on the strings of Texts and on whitespace
Trim(s) == IF s = " " THEN "" ELSE s

\* the text call r returns (the model's text or a fallback string): an opaque
\* value, distinct for every call
ResponseText(r) == r

IdsOn(slot) == {r \in DOMAIN calls : calls[r].slot = slot}

Max(S) == CHOOSE x \in S : \A y \in S : y <= x

\* the call begun last on a slot (0 when there is none)
LastBegun(slot) == IF IdsOn(slot) = {} THEN 0 ELSE Max(IdsOn(slot))

\* where a call's handler stands: awaiting a response, or ended
AwaitLabels == {"await_generatePrayerSegment", "await_generateSpeech",
                "await_decodeAudioData", "await_generateRepresentativePrayer",
                "await_generateFuneralPrayer"}

\* the calls on a slot whose response has not been delivered yet
InFlight(slot) == {r \in IdsOn(slot) : calls[r].pc \in AwaitLabels}

\* the handler of call r moves on: to its next await, to "source_onended" (the
\* handler has returned, the callback is registered), or to one of its ends:
\* "returned_stale" (early return at a token check), "caught" (its catch
\* block ran), "threw" (the rejection left the handler), "done"
Goto(r, label) == calls' = [calls EXCEPT ![r].pc = label]

Dispatch(kind, slot, token, label, arg) ==
  /\ Len(calls) < MaxCalls
  /\ cancelled' = cancelled \ IdsOn(slot)
  /\ calls' = Append(calls, [kind |-> kind, slot |-> slot, token |-> token,
                             pc |-> label, arg |-> arg])

InitCommon ==
  /\ now = 1
  /\ view = "REP_SETTINGS"
  /\ repSettings = DEFAULT_REP_SETTINGS
  /\ funSettings = DEFAULT_FUN_SETTINGS
  /\ attemptedSubmit = FALSE
  /\ activeRequestsRef = [i \in Segments |-> Undefined]
  /\ searchingStates = [i \in Segments |-> FALSE]
  /\ speechRequestRef = 0
  /\ isPreparingSpeech = FALSE
  /\ isSpeaking = FALSE
  /\ audioSourceRef = Null
  /\ playing = {}
  /\ downloadRequestRef = 0
  /\ isDownloading = FALSE
  /\ downloaded = {}
  /\ isLoading = FALSE
  /\ generatedPrayer = NoText
  /\ sources = NoText
  /\ cancelled = {}
  /\ unhandledRejection = FALSE
  /\ calls = <<>>
  /\ alertMsg = ""

\* no service call, no result of it
NoCall == [fn |-> None]
NoResult == [pc |-> "idle"]

\* no attachment yet
AttachmentsEmpty == repAttachments = <<>> /\ funAttachments = <<>> /\ readers = <<>>

\* no service call is under examination
ServiceIdle == svcCall = NoCall /\ svcResult = NoResult

\* createWavBlob is not under examination
WavIdle == pcmData = <<>> /\ sampleRate = <<0, 0>> /\ wavBlob = <<>>

\* speech input: supported, never activated
SttIdle ==
  /\ speechRecognition = TRUE
  /\ sttEntry = "handleStartSTT"
  /\ isListening = FALSE
  /\ recognitionInstance = Null
  /\ recognitions = <<>>
  /\ sttValue = <<>>
  /\ activated = FALSE

InitAux == AttachmentsEmpty /\ ServiceIdle /\ WavIdle /\ SttIdle

\* the rich variant, freshly mounted
Init == variant = "rich" /\ InitCommon /\ InitAux

\* either variant, freshly mounted
InitGen == variant \in Variants /\ InitCommon /\ InitAux

\* ------------------------------------------------------------ environment
\* Date.now(): a reading of the millisecond clock, never below the previous
\* reading and equal to it when no millisecond has passed in between
DateNow == {t \in now..MaxClock : t <= now + 1}

\* onChange of a text input or select of the representative form
EditRepField(field, v) ==
  /\ repSettings' = [repSettings EXCEPT ![field] = v]
  /\ repSettings' # repSettings
  /\ alertMsg' = ""
  /\ UNCHANGED <<variant, auxVars, now, view, funSettings, attemptedSubmit, segmentVars,
                 speechVars, downloadVars, genVars, calls, cancelled>>

\* onChange of a text input of the funeral form
EditFunField(field, v) ==
  /\ funSettings' = [funSettings EXCEPT ![field] = v]
  /\ funSettings' # funSettings
  /\ alertMsg' = ""
  /\ UNCHANGED <<variant, auxVars, now, view, repSettings, attemptedSubmit, segmentVars,
                 speechVars, downloadVars, genVars, calls, cancelled>>

\* ------------------------------------------------- rich variant: segments
validateRepFields ==
  IF repSettings.serviceType = Other
    THEN Trim(repSettings.otherServiceType) # ""
    ELSE /\ Trim(repSettings.churchName) # ""
         /\ Trim(repSettings.pastorName) # ""
         /\ (repSettings.churchSeason # Other
               \/ Trim(repSettings.otherChurchSeason) # "")

\* a handler that applies every response, whatever the slot's token
SegmentIsStaleNever(index, requestId) == FALSE

\* line 982: the response is dropped when the slot's token has moved on
SegmentIsStale(index, requestId) == activeRequestsRef[index] # requestId

\* a finally block that clears the indicator unconditionally
SegmentMayClearBusyAlways(index, requestId) == TRUE

\* a finally block that never clears the indicator
SegmentMayClearBusyNever(index, requestId) == FALSE

\* line 989: the finally block clears the indicator only for the current call
SegmentMayClearBusy(index, requestId) == activeRequestsRef[index] = requestId

\* a rejection that also gives up the slot's token and indicator
SearchRejectedAndCancelled(index) ==
  /\ attemptedSubmit' = TRUE
  /\ alertMsg' = "complete the required settings first"
  /\ activeRequestsRef' = [activeRequestsRef EXCEPT ![index] = CancelToken]
  /\ searchingStates' = [searchingStates EXCEPT ![index] = FALSE]
  /\ UNCHANGED <<variant, auxVars, now, view, repSettings, funSettings,
                 speechVars, downloadVars, genVars, calls, cancelled>>

\* lines 947-951: validation failed; the handler marks the form as submitted,
\* alerts and returns before it touches the tracker
SearchRejected(index) ==
  /\ attemptedSubmit' = TRUE
  /\ alertMsg' = "complete the required settings first"
  /\ UNCHANGED <<variant, auxVars, now, view, repSettings, funSettings, segmentVars,
                 speechVars, downloadVars, genVars, calls, cancelled>>

handleSearchSegment(index) ==
  IF ~validateRepFields
    THEN SearchRejected(index)
    ELSE /\ \E requestId \in DateNow :
              /\ now' = requestId
              /\ Dispatch("segment", index, requestId, "await_generatePrayerSegment",
                          [churchName |-> repSettings.churchName,
                           churchSeason |-> repSettings.churchSeason,
                           otherSeason |-> repSettings.otherChurchSeason])
              /\ activeRequestsRef' = [activeRequestsRef EXCEPT ![index] = requestId]
         /\ searchingStates' = [searchingStates EXCEPT ![index] = TRUE]
         /\ alertMsg' = ""
         /\ UNCHANGED <<variant, auxVars, view, settingsVars, speechVars, downloadVars, genVars>>

\* a cancel that resets the whole tracker instead of one slot
handleCancelSearchSegmentAll(index) ==
  /\ activeRequestsRef' = [i \in Segments |-> CancelToken]
  /\ searchingStates' = [i \in Segments |-> FALSE]
  /\ cancelled' = cancelled \cup InFlight(index)
  /\ alertMsg' = ""
  /\ UNCHANGED <<variant, auxVars, now, view, settingsVars, speechVars, downloadVars,
                 genVars, calls>>

\* a cancel that resets the token and leaves the indicator on
handleCancelSearchSegmentKeepsBusy(index) ==
  /\ activeRequestsRef' = [activeRequestsRef EXCEPT ![index] = CancelToken]
  /\ cancelled' = cancelled \cup InFlight(index)
  /\ alertMsg' = ""
  /\ UNCHANGED <<variant, auxVars, now, view, settingsVars, searchingStates, speechVars,
                 downloadVars, genVars, calls>>

handleCancelSearchSegment(index) ==
  /\ activeRequestsRef' = [activeRequestsRef EXCEPT ![index] = CancelToken]
  /\ searchingStates' = [searchingStates EXCEPT ![index] = FALSE]
  /\ cancelled' = cancelled \cup InFlight(index)
  /\ alertMsg' = ""
  /\ UNCHANGED <<variant, auxVars, now, view, settingsVars, speechVars, downloadVars,
                 genVars, calls>>

\* AccordionField renders the search button while the slot is idle
OnSearch(index) ==
  /\ variant = "rich"
  /\ ~searchingStates[index]
  /\ handleSearchSegment(index)

\* ... and the cancel button while it is searching; the App wires slot 1's
\* onCancelSearch to handleSearchSegment(1)
OnCancelSearch(index) ==
  /\ variant = "rich"
  /\ searchingStates[index]
  /\ IF index = 1 THEN handleSearchSegment(1) ELSE handleCancelSearchSegment(index)

\* the continuation of handleSearchSegment after its await; generatePrayerSegment
\* catches every failure and returns a string, so the catch block of the
\* handler (lines 984-987) is never entered
SegmentResolve(r) ==
  /\ r \in DOMAIN calls
  /\ calls[r].kind = "segment"
  /\ calls[r].pc = "await_generatePrayerSegment"
  /\ LET index == calls[r].slot
         requestId == calls[r].token
         newPhrase == ResponseText(r)
     IN /\ IF SegmentIsStale(index, requestId)
             THEN UNCHANGED repSettings
             ELSE repSettings' = [repSettings EXCEPT ![keys[index]] = newPhrase]
        /\ IF SegmentMayClearBusy(index, requestId)
             THEN searchingStates' = [searchingStates EXCEPT ![index] = FALSE]
             ELSE UNCHANGED searchingStates
  /\ Goto(r, IF SegmentIsStale(calls[r].slot, calls[r].token)
                THEN "returned_stale" ELSE "done")
  /\ alertMsg' = ""
  /\ UNCHANGED <<variant, auxVars, now, view, funSettings, attemptedSubmit, activeRequestsRef,
                 speechVars, downloadVars, genVars, cancelled>>

\* --------------------------------------------------- rich variant: speech
\* what stopSpeech does to the component
stopSpeechState ==
  /\ speechRequestRef' = CancelToken
  /\ playing' = IF audioSourceRef # Null THEN playing \ {audioSourceRef} ELSE playing
  /\ audioSourceRef' = Null
  /\ isPreparingSpeech' = FALSE
  /\ isSpeaking' = FALSE

stopSpeech ==
  /\ stopSpeechState
  /\ cancelled' = cancelled \cup InFlight(SpeechSlot)

\* lines 1152, 1161, 1171, 1180: is the handler's id still the stored one
SpeechIsCurrent(currentSpeechId) == speechRequestRef = currentSpeechId

\* a handler that does not repeat the check after the second await
SpeechIsCurrentUnchecked(currentSpeechId) == TRUE

\* line 1161, the check repeated after the await of decodeAudioData
SpeechIsCurrentAfterDecode(currentSpeechId) == speechRequestRef = currentSpeechId

handleToggleSpeech ==
  /\ variant = "rich"
  /\ alertMsg' = ""
  /\ IF isSpeaking \/ isPreparingSpeech
       THEN /\ stopSpeech
            /\ UNCHANGED <<variant, auxVars, now, view, settingsVars, segmentVars, downloadVars,
                           genVars, calls>>
       ELSE /\ \E currentSpeechId \in DateNow :
                 /\ now' = currentSpeechId
                 /\ Dispatch("speech", SpeechSlot, currentSpeechId,
                             "await_generateSpeech", [text |-> generatedPrayer])
                 /\ speechRequestRef' = currentSpeechId
            /\ isPreparingSpeech' = TRUE
            /\ UNCHANGED <<variant, auxVars, view, settingsVars, segmentVars, downloadVars,
                           genVars, isSpeaking, audioSourceRef, playing>>

\* the catch block of handleToggleSpeech
SpeechCatch(r) ==
  /\ IF SpeechIsCurrent(calls[r].token)
       THEN /\ alertMsg' = "speech generation failed"
            /\ isPreparingSpeech' = FALSE
            /\ isSpeaking' = FALSE
       ELSE /\ alertMsg' = ""
            /\ UNCHANGED <<isPreparingSpeech, isSpeaking>>
  /\ Goto(r, "caught")
  /\ UNCHANGED <<variant, auxVars, now, view, settingsVars, segmentVars, downloadVars, genVars,
                 speechRequestRef, audioSourceRef, playing, cancelled>>

\* generateSpeech resolved: first check, then a new AudioContext (kept in
\* audioContextRef, which nothing reads) and the await of decodeAudioData
SpeechResolve(r) ==
  /\ r \in DOMAIN calls
  /\ calls[r].kind = "speech"
  /\ calls[r].pc = "await_generateSpeech"
  /\ alertMsg' = ""
  /\ IF SpeechIsCurrent(calls[r].token)
       THEN Goto(r, "await_decodeAudioData")
       ELSE Goto(r, "returned_stale")
  /\ UNCHANGED <<variant, auxVars, now, view, settingsVars, segmentVars, downloadVars, genVars,
                 speechRequestRef, isPreparingSpeech, isSpeaking, audioSourceRef,
                 playing, cancelled>>

\* generateSpeech rejected (it rethrows every failure)
SpeechReject(r) ==
  /\ r \in DOMAIN calls
  /\ calls[r].kind = "speech"
  /\ calls[r].pc = "await_generateSpeech"
  /\ SpeechCatch(r)

\* a playback start that forgets setIsPreparingSpeech(false)
startPlaybackStillPreparing(r) ==
  /\ UNCHANGED isPreparingSpeech
  /\ isSpeaking' = TRUE
  /\ audioSourceRef' = r
  /\ playing' = playing \cup {r}
  /\ Goto(r, "source_onended")

\* lines 1163-1179: the flags are switched, the source is created, kept in
\* audioSourceRef and started
startPlayback(r) ==
  /\ isPreparingSpeech' = FALSE
  /\ isSpeaking' = TRUE
  /\ audioSourceRef' = r
  /\ playing' = playing \cup {r}
  /\ Goto(r, "source_onended")

\* decodeAudioData resolved: second check, then the source is created and started
DecodeResolve(r) ==
  /\ r \in DOMAIN calls
  /\ calls[r].kind = "speech"
  /\ calls[r].pc = "await_decodeAudioData"
  /\ alertMsg' = ""
  /\ IF SpeechIsCurrentAfterDecode(calls[r].token)
       THEN startPlayback(r)
       ELSE /\ UNCHANGED <<isPreparingSpeech, isSpeaking, audioSourceRef, playing>>
            /\ Goto(r, "returned_stale")
  /\ UNCHANGED <<variant, auxVars, now, view, settingsVars, segmentVars, downloadVars, genVars,
                 speechRequestRef, cancelled>>

\* decodeAudioData rejected (new Int16Array throws on an odd byte length)
DecodeReject(r) ==
  /\ r \in DOMAIN calls
  /\ calls[r].kind = "speech"
  /\ calls[r].pc = "await_decodeAudioData"
  /\ SpeechCatch(r)

\* source.onended: fired when the buffer has played to its end, or after stop()
SourceEnded(r) ==
  /\ r \in DOMAIN calls
  /\ calls[r].kind = "speech"
  /\ calls[r].pc = "source_onended"
  /\ alertMsg' = ""
  /\ playing' = playing \ {r}
  /\ IF SpeechIsCurrent(calls[r].token)
       THEN /\ isSpeaking' = FALSE
            /\ audioSourceRef' = Null
       ELSE UNCHANGED <<isSpeaking, audioSourceRef>>
  /\ Goto(r, "done")
  /\ UNCHANGED <<variant, auxVars, now, view, settingsVars, segmentVars, downloadVars, genVars,
                 speechRequestRef, isPreparingSpeech, cancelled>>

changeView(newView) ==
  /\ variant = "rich"
  /\ stopSpeech
  /\ attemptedSubmit' = FALSE
  /\ view' = newView
  /\ alertMsg' = ""
  /\ UNCHANGED <<variant, auxVars, now, repSettings, funSettings, segmentVars, downloadVars,
                 genVars, calls>>

\* ------------------------------------------------- rich variant: download
\* lines 1203, 1217: is the handler's id still the stored one
DownloadIsCurrent(currentDownloadId) == downloadRequestRef = currentDownloadId

\* line 1221: the finally block clears the indicator only for the current call
DownloadMayClearBusy(currentDownloadId) == downloadRequestRef = currentDownloadId

handleDownloadAudio ==
  /\ variant = "rich"
  /\ alertMsg' = ""
  /\ IF isDownloading
       THEN /\ downloadRequestRef' = CancelToken
            /\ isDownloading' = FALSE
            /\ cancelled' = cancelled \cup InFlight(DownloadSlot)
            /\ UNCHANGED <<now, calls, downloaded>>
       ELSE /\ \E currentDownloadId \in DateNow :
                 /\ now' = currentDownloadId
                 /\ Dispatch("download", DownloadSlot, currentDownloadId,
                             "await_generateSpeech", [text |-> generatedPrayer])
                 /\ downloadRequestRef' = currentDownloadId
            /\ isDownloading' = TRUE
            /\ UNCHANGED downloaded
  /\ UNCHANGED <<variant, auxVars, view, settingsVars, segmentVars, speechVars, genVars>>

DownloadResolve(r) ==
  /\ r \in DOMAIN calls
  /\ calls[r].kind = "download"
  /\ calls[r].pc = "await_generateSpeech"
  /\ alertMsg' = ""
  /\ IF DownloadIsCurrent(calls[r].token)
       THEN downloaded' = downloaded \cup {r}
       ELSE UNCHANGED downloaded
  /\ IF DownloadMayClearBusy(calls[r].token)
       THEN isDownloading' = FALSE
       ELSE UNCHANGED isDownloading
  /\ Goto(r, IF DownloadIsCurrent(calls[r].token) THEN "done" ELSE "returned_stale")
  /\ UNCHANGED <<variant, auxVars, now, view, settingsVars, segmentVars, speechVars, genVars,
                 downloadRequestRef, cancelled>>

DownloadReject(r) ==
  /\ r \in DOMAIN calls
  /\ calls[r].kind = "download"
  /\ calls[r].pc = "await_generateSpeech"
  /\ alertMsg' = IF DownloadIsCurrent(calls[r].token)
                   THEN "audio download failed" ELSE ""
  /\ IF DownloadMayClearBusy(calls[r].token)
       THEN isDownloading' = FALSE
       ELSE UNCHANGED isDownloading
  /\ Goto(r, "caught")
  /\ UNCHANGED <<variant, auxVars, now, view, settingsVars, segmentVars, speechVars, genVars,
                 downloadRequestRef, downloaded, cancelled>>

\* ------------------------------------- rich variant: full-prayer generation
GenKinds == {"rep", "fun"}

\* the generations whose result has not arrived
PendingGen ==
  {r \in DOMAIN calls : calls[r].kind \in GenKinds /\ calls[r].pc \in AwaitLabels}

\* the grounding sources of call r's response
SourcesOf(r) == r

\* lines 1004-1020: the validation of handleGenerateRep; "" when it passes,
\* else the alert shown
GenerateRepGate ==
  IF repSettings.serviceType # Other
    THEN IF repSettings.churchName = "" THEN "enter the church name"
         ELSE IF repSettings.pastorName = "" THEN "enter the preacher's name"
         ELSE ""
    ELSE IF repSettings.otherServiceType = "" THEN "enter the service type" ELSE ""

\* line 1051: the validation of handleGenerateFun
GenerateFunGate ==
  IF funSettings.deceasedName = "" THEN "enter the name of the deceased" ELSE ""

\* setIsLoading(true) and the call of generateRepresentativePrayer
StartRep ==
  /\ isLoading' = TRUE
  /\ Dispatch("rep", NoSlot, CancelToken, "await_generateRepresentativePrayer",
              [churchName |-> repSettings.churchName,
               pastorName |-> repSettings.pastorName,
               serviceType |-> repSettings.serviceType,
               otherServiceType |-> repSettings.otherServiceType])

\* setIsLoading(true) and the call of generateFuneralPrayer
StartFun ==
  /\ isLoading' = TRUE
  /\ Dispatch("fun", NoSlot, CancelToken, "await_generateFuneralPrayer", funSettings)

\* handleGenerateRep up to its await
handleGenerateRep ==
  /\ attemptedSubmit' = TRUE
  /\ alertMsg' = GenerateRepGate
  /\ IF GenerateRepGate # ""
       THEN UNCHANGED <<isLoading, calls, cancelled>>
       ELSE StartRep
  /\ UNCHANGED <<variant, auxVars, now, view, repSettings, funSettings, segmentVars,
                 downloadVars, generatedPrayer, sources, unhandledRejection>>

\* handleGenerateFun up to its await
handleGenerateFun ==
  /\ attemptedSubmit' = TRUE
  /\ alertMsg' = GenerateFunGate
  /\ IF GenerateFunGate # ""
       THEN UNCHANGED <<isLoading, calls, cancelled>>
       ELSE StartFun
  /\ UNCHANGED <<variant, auxVars, now, view, repSettings, funSettings, segmentVars,
                 downloadVars, generatedPrayer, sources, unhandledRejection>>

\* the button of the REP_SETTINGS view; the loading screen replaces the view
\* while isLoading
OnGenerateRep ==
  /\ variant = "rich"
  /\ ~isLoading
  /\ view = "REP_SETTINGS"
  /\ handleGenerateRep
  /\ UNCHANGED speechVars

\* the button of the FUN_SETTINGS view
OnGenerateFun ==
  /\ variant = "rich"
  /\ ~isLoading
  /\ view = "FUN_SETTINGS"
  /\ handleGenerateFun
  /\ UNCHANGED speechVars

\* the button of the result views
handleRegenerate ==
  /\ variant = "rich"
  /\ ~isLoading
  /\ view \in {"REP_RESULT", "FUN_RESULT"}
  /\ stopSpeechState
  /\ IF view = "REP_RESULT" THEN handleGenerateRep ELSE handleGenerateFun

\* the button of the loading screen
handleCancelLoading ==
  /\ variant = "rich"
  /\ isLoading
  /\ isLoading' = FALSE
  /\ cancelled' = cancelled \cup PendingGen
  /\ alertMsg' = ""
  /\ UNCHANGED <<variant, auxVars, now, view, settingsVars, segmentVars, speechVars,
                 downloadVars, generatedPrayer, sources, unhandledRejection, calls>>

\* every generation switching to the representative result view
ResultViewAlwaysRep(kind) == "REP_RESULT"

\* the result view a generation of this kind switches to
ResultView(kind) == IF kind = "rep" THEN "REP_RESULT" ELSE "FUN_RESULT"

\* generateRepresentativePrayer / generateFuneralPrayer resolved: the rest of
\* the try block and the finally block (rich variant)
GenResolve(r) ==
  /\ variant = "rich"
  /\ r \in PendingGen
  /\ generatedPrayer' = ResponseText(r)
  /\ sources' = SourcesOf(r)
  /\ view' = ResultView(calls[r].kind)
  /\ attemptedSubmit' = FALSE
  /\ isLoading' = FALSE
  /\ Goto(r, "done")
  /\ alertMsg' = ""
  /\ UNCHANGED <<variant, auxVars, now, repSettings, funSettings, segmentVars, speechVars,
                 downloadVars, unhandledRejection, cancelled>>

\* ... rejected: the catch block and the finally block (rich variant)
GenReject(r) ==
  /\ variant = "rich"
  /\ r \in PendingGen
  /\ alertMsg' = "prayer generation failed"
  /\ isLoading' = FALSE
  /\ Goto(r, "caught")
  /\ UNCHANGED <<variant, auxVars, now, view, settingsVars, segmentVars, speechVars,
                 downloadVars, generatedPrayer, sources, unhandledRejection,
                 cancelled>>

\* ----------------------------------------------------------- simple variant
\* the sidebar buttons and the "back to settings" button of the result view
setCurrentView(newView) ==
  /\ variant = "simple"
  /\ view' = newView
  /\ alertMsg' = ""
  /\ UNCHANGED <<variant, auxVars, now, settingsVars, segmentVars, speechVars, downloadVars,
                 genVars, calls, cancelled>>

\* the forms are rendered only while isProcessing is false
submitRepPrayer ==
  /\ variant = "simple"
  /\ ~isLoading
  /\ view = "REP_SETTINGS"
  /\ StartRep
  /\ alertMsg' = ""
  /\ UNCHANGED <<variant, auxVars, now, view, settingsVars, segmentVars, speechVars,
                 downloadVars, generatedPrayer, sources, unhandledRejection>>

submitFunPrayer ==
  /\ variant = "simple"
  /\ ~isLoading
  /\ view = "FUN_SETTINGS"
  /\ StartFun
  /\ alertMsg' = ""
  /\ UNCHANGED <<variant, auxVars, now, view, settingsVars, segmentVars, speechVars,
                 downloadVars, generatedPrayer, sources, unhandledRejection>>

\* the call resolved: the rest of the try block and the finally block
SubmitResolve(r) ==
  /\ variant = "simple"
  /\ r \in PendingGen
  /\ generatedPrayer' = ResponseText(r)
  /\ sources' = SourcesOf(r)
  /\ view' = ResultView(calls[r].kind)
  /\ isLoading' = FALSE
  /\ Goto(r, "done")
  /\ alertMsg' = ""
  /\ UNCHANGED <<variant, auxVars, now, settingsVars, segmentVars, speechVars, downloadVars,
                 unhandledRejection, cancelled>>

\* the call rejected: there is no catch block, the finally block runs and the
\* rejection leaves the handler
SubmitReject(r) ==
  /\ variant = "simple"
  /\ r \in PendingGen
  /\ isLoading' = FALSE
  /\ unhandledRejection' = TRUE
  /\ Goto(r, "threw")
  /\ alertMsg' = ""
  /\ UNCHANGED <<variant, auxVars, now, view, settingsVars, segmentVars, speechVars,
                 downloadVars, generatedPrayer, sources, cancelled>>

\* the accordion's button, rendered while the slot is not searching
handleAIRecommendation(idx) ==
  /\ variant = "simple"
  /\ ~isLoading
  /\ view = "REP_SETTINGS"
  /\ ~searchingStates[idx]
  /\ IF repSettings.churchName = ""
       THEN /\ alertMsg' = "enter the church name first"
            /\ UNCHANGED <<searchingStates, calls, cancelled>>
       ELSE /\ alertMsg' = ""
            /\ searchingStates' = [searchingStates EXCEPT ![idx] = TRUE]
            /\ Dispatch("recommendation", idx, CancelToken,
                        "await_generatePrayerSegment",
                        [churchName |-> repSettings.churchName,
                         churchSeason |-> repSettings.churchSeason])
  /\ UNCHANGED <<variant, auxVars, now, view, settingsVars, activeRequestsRef, speechVars,
                 downloadVars, genVars>>

\* generatePrayerSegment returned: the field is set and the finally block runs
RecommendationResolve(r) ==
  /\ variant = "simple"
  /\ r \in DOMAIN calls
  /\ calls[r].kind = "recommendation"
  /\ calls[r].pc = "await_generatePrayerSegment"
  /\ repSettings' = [repSettings EXCEPT ![keys[calls[r].slot]] = ResponseText(r)]
  /\ searchingStates' = [searchingStates EXCEPT ![calls[r].slot] = FALSE]
  /\ Goto(r, "done")
  /\ alertMsg' = ""
  /\ UNCHANGED <<variant, auxVars, now, view, funSettings, attemptedSubmit, activeRequestsRef,
                 speechVars, downloadVars, genVars, cancelled>>

Next ==
  \/ \E v \in Texts : EditRepField("churchName", v)
  \/ EditRepField("pastorName", "x")
  \/ changeView("REP_SETTINGS")
  \/ \E i \in Segments : OnSearch(i)
  \/ \E i \in Segments : OnCancelSearch(i)
  \/ \E r \in 1..MaxCalls : SegmentResolve(r)
  \/ handleToggleSpeech
  \/ \E r \in 1..MaxCalls : SpeechResolve(r)
  \/ \E r \in 1..MaxCalls : SpeechReject(r)
  \/ \E r \in 1..MaxCalls : DecodeResolve(r)
  \/ \E r \in 1..MaxCalls : DecodeReject(r)
  \/ \E r \in 1..MaxCalls : SourceEnded(r)
  \/ handleDownloadAudio
  \/ \E r \in 1..MaxCalls : DownloadResolve(r)
  \/ \E r \in 1..MaxCalls : DownloadReject(r)

Spec == Init /\ [][Next]_vars

\* full-prayer generation and the forms of both variants; the simple variant's
\* segment search
NextGen ==
  \/ \E f \in {"churchName", "pastorName", "otherServiceType"} : EditRepField(f, "x")
  \/ \E v \in SERVICE_TYPES : EditRepField("serviceType", v)
  \/ EditFunField("deceasedName", "x")
  \/ \E v \in SettingsViews : changeView(v)
  \/ OnGenerateRep
  \/ OnGenerateFun
  \/ handleRegenerate
  \/ handleCancelLoading
  \/ \E r \in 1..MaxCalls : GenResolve(r)
  \/ \E r \in 1..MaxCalls : GenReject(r)
  \/ \E v \in SettingsViews : setCurrentView(v)
  \/ submitRepPrayer
  \/ submitFunPrayer
  \/ \E r \in 1..MaxCalls : SubmitResolve(r)
  \/ \E r \in 1..MaxCalls : SubmitReject(r)
  \/ \E i \in Segments : handleAIRecommendation(i)
  \/ \E r \in 1..MaxCalls : RecommendationResolve(r)

SpecGen == InitGen /\ [][NextGen]_vars

\* ================================================================ claims
TrackerKinds == {"segment", "speech", "download"}

\* the token a slot stores
Token(slot) ==
  IF slot \in Segments THEN activeRequestsRef[slot]
  ELSE IF slot = SpeechSlot THEN speechRequestRef ELSE downloadRequestRef

\* the busy indicator(s) of a slot
BusyFlags(slot) ==
  IF slot \in Segments THEN <<searchingStates[slot]>>
  ELSE IF slot = SpeechSlot THEN <<isPreparingSpeech, isSpeaking>>
  ELSE <<isDownloading>>

Busy(slot) == \E k \in DOMAIN BusyFlags(slot) : BusyFlags(slot)[k]

\* what a response can show the user: the segment fields, audio playback, the
\* downloaded files
Visible == <<[i \in Segments |-> repSettings[keys[i]]], playing, downloaded>>

\* this step delivers the response call r was awaiting
IsDelivery(r) == calls[r].pc \in AwaitLabels /\ calls'[r].pc # calls[r].pc

\* this step delivers a response of a tracked slot
IsTrackedDelivery(r) == calls[r].kind \in TrackerKinds /\ IsDelivery(r)

\* C1: of the requests begun on a slot only the one begun last has its response
\* applied; the response of every earlier one changes nothing the user sees
\* and raises no alert.
C1_LastBeginWins ==
  [][\A r \in DOMAIN calls :
       (IsTrackedDelivery(r) /\ r # LastBegun(calls[r].slot))
         => (Visible' = Visible /\ alertMsg' = "")]_vars

\* C2: a response (or failure) delivered to a call whose slot was cancelled
\* while the call was in flight changes nothing the user sees, raises no alert
\* and leaves the slot's busy indicator off.
C2_CancelThenDelivery ==
  [][\A r \in cancelled :
       IsTrackedDelivery(r)
         => (Visible' = Visible /\ alertMsg' = "" /\ ~Busy(calls[r].slot)')]_vars

C2_Witness ==
  \E r \in cancelled :
    /\ calls[r].kind \in TrackerKinds
    /\ calls[r].pc = "returned_stale"
    /\ r = LastBegun(calls[r].slot)
    /\ ~Busy(calls[r].slot)

\* C3: a response changes what the user sees only if the token its call
\* captured at begin is the slot's stored token when the response is
\* processed, after the first await and after the second one alike.
C3_AppliedOnlyIfCurrent ==
  [][\A r \in DOMAIN calls :
       (IsTrackedDelivery(r) /\ Visible' # Visible)
         => calls[r].token = Token(calls[r].slot)]_vars

C3_Witness ==
  \E r, q \in DOMAIN calls :
    /\ calls[r].kind = "speech"
    /\ r \in playing
    /\ calls[q].kind = "speech"
    /\ calls[q].pc = "returned_stale"

\* C4: every begin stores a token that differs from every token issued before
\* on that slot and from the cancel value, and turns the busy indicator on.
C4_TokenUnique ==
  [][Len(calls') > Len(calls) =>
       LET c == calls'[Len(calls')]
       IN c.kind \in TrackerKinds =>
            \A s \in Slots :
              (s = c.slot) =>
                /\ Token(s)' = c.token
                /\ c.token # CancelToken
                /\ \A q \in IdsOn(s) : calls[q].token # c.token
                /\ Busy(s)']_vars

\* C5: the completion of a call whose token is no longer the slot's stored
\* token leaves the slot's busy indicator as it was.
C5_StaleKeepsBusy ==
  [][\A r \in DOMAIN calls :
       (IsTrackedDelivery(r) /\ calls[r].token # Token(calls[r].slot))
         => BusyFlags(calls[r].slot)' = BusyFlags(calls[r].slot)]_vars

C5_Witness ==
  \E r, q \in DOMAIN calls :
    /\ calls[r].slot = calls[q].slot
    /\ calls[r].kind \in TrackerKinds
    /\ calls[r].pc = "returned_stale"
    /\ calls[q].pc \in AwaitLabels
    /\ calls[q].token = Token(calls[q].slot)
    /\ Busy(calls[q].slot)

\* the slots whose token, busy indicator or field this step changes
ChangedSlots ==
  {i \in Segments : \/ activeRequestsRef'[i] # activeRequestsRef[i]
                    \/ searchingStates'[i] # searchingStates[i]
                    \/ repSettings'[keys[i]] # repSettings[keys[i]]}
  \cup (IF <<speechRequestRef, isPreparingSpeech, isSpeaking>>'
             # <<speechRequestRef, isPreparingSpeech, isSpeaking>>
          THEN {SpeechSlot} ELSE {})
  \cup (IF <<downloadRequestRef, isDownloading>>' # <<downloadRequestRef, isDownloading>>
          THEN {DownloadSlot} ELSE {})

\* C6: a step changes the token, busy indicator and field of at most one slot,
\* and a begin or a delivery changes those of no slot but its own.
C6_SlotIndependence ==
  [][/\ Cardinality(ChangedSlots) <= 1
     /\ \A r \in DOMAIN calls' :
          (calls'[r].kind \in TrackerKinds
             /\ (r \notin DOMAIN calls \/ calls'[r].pc # calls[r].pc))
            => ChangedSlots \subseteq {calls'[r].slot}]_vars

C6_Witness ==
  \E r, q \in DOMAIN calls :
    /\ calls[r].slot # calls[q].slot
    /\ calls[r].kind \in TrackerKinds
    /\ calls[r].pc = "done"
    /\ calls[q].kind \in TrackerKinds
    /\ calls[q].pc \in AwaitLabels
    /\ Busy(calls[q].slot)

\* this step delivers the result (or the failure) of a full-prayer generation
IsGenDelivery(r) == calls[r].kind \in GenKinds /\ IsDelivery(r)

\* the full-prayer generation started last (0 when there is none)
LastStartedGen ==
  IF \E r \in DOMAIN calls : calls[r].kind \in GenKinds
    THEN Max({r \in DOMAIN calls : calls[r].kind \in GenKinds})
    ELSE 0

\* C7: once handleCancelLoading has run while a full-prayer generation was
\* pending, the arrival of that generation's result changes neither
\* generatedPrayer nor sources nor view.
C7_CancelLoadingStopsResult ==
  [][\A r \in cancelled :
       IsGenDelivery(r) => UNCHANGED <<generatedPrayer, sources, view>>]_vars

\* C8: when a second full-prayer generation is started while an earlier one is
\* pending, the result of the earlier one neither replaces what the later one
\* displayed nor clears isLoading while the later one is still pending.
C8_SecondGenerationSupersedes ==
  [][\A r \in DOMAIN calls :
       (IsGenDelivery(r) /\ r # LastStartedGen)
         => /\ calls[LastStartedGen].pc = "done"
                 => UNCHANGED <<generatedPrayer, sources, view>>
            /\ (calls[LastStartedGen].pc \in AwaitLabels /\ isLoading)
                 => isLoading']_vars

\* the fields a call of this kind requires are present in what was sent
RequiredFieldsPresent(c) ==
  CASE c.kind = "rep" ->
         IF c.arg.serviceType = Other
           THEN c.arg.otherServiceType # ""
           ELSE c.arg.churchName # "" /\ c.arg.pastorName # ""
    [] c.kind = "fun" -> c.arg.deceasedName # ""
    [] c.kind \in {"segment", "recommendation"} -> c.arg.churchName # ""
    [] OTHER -> TRUE

\* the alerts of the validation gates
ValidationAlerts ==
  {"enter the church name", "enter the preacher's name", "enter the service type",
   "enter the name of the deceased", "enter the church name first",
   "complete the required settings first"}

\* C9: in both variants no text-generation call is dispatched with a required
\* field missing, and a step that ends in a validation alert dispatches
\* nothing and turns no busy indicator on.
C9_ValidationBeforeDispatch ==
  [][/\ Len(calls') > Len(calls) => RequiredFieldsPresent(calls'[Len(calls')])
     /\ alertMsg' \in ValidationAlerts
          => UNCHANGED <<calls, isLoading, searchingStates>>]_vars

\* C10: in both variants, when a full-prayer generation rejects, the rejection
\* does not leave the handler, the loading indicator is cleared, and the view,
\* the prayer text and the sources stay as they were.
C10_FailureCaughtAtCallSite ==
  [][\A r \in DOMAIN calls :
       (IsGenDelivery(r) /\ calls'[r].pc \in {"caught", "threw"})
         => /\ ~unhandledRejection'
            /\ ~isLoading'
            /\ UNCHANGED <<view, generatedPrayer, sources>>]_vars

\* ============================================================ the service
\* services/geminiService.ts, in its two versions: version 1 is imported by the
\* rich variant, version 2 by the simple variant.  A prompt is modelled as the
\* sequence of its lines that matter, each a record of the line's fixed text
\* (line) and of the values interpolated into it (args).
ServiceVersions == {1, 2}

\* the labels the two callers pass as segmentName (lines 954-961, App.tsx
\* line 441)
labels ==
  [rich |-> <<"praise and thanksgiving", "confession and repentance",
              "wellbeing of the nation", "needs of the church and mission",
              "suffering and healing of the saints", "petition for the preacher">>,
   simple |-> <<"praise", "confession", "nation", "church", "healing",
                "preacher">>]

\* which of the words generatePrayerSegment looks for occur in which label
Occurrences ==
  {<<"praise and thanksgiving", "praise">>, <<"praise", "praise">>,
   <<"confession and repentance", "confession">>, <<"confession", "confession">>,
   <<"wellbeing of the nation", "nation">>, <<"nation", "nation">>,
   <<"needs of the church and mission", "church">>, <<"church", "church">>,
   <<"suffering and healing of the saints", "suffering">>,
   <<"suffering and healing of the saints", "healing">>, <<"healing", "healing">>,
   <<"petition for the preacher", "preacher">>, <<"preacher", "preacher">>}

\* String.prototype.includes on a label
includes(label, word) == <<label, word>> \in Occurrences

\* the fixed strings the service returns in place of a text
SegmentFallback == "may the grace of God fill this area"
SegmentCatchFallback == "may God hear the prayer of our hearts"
RepFallback == [v \in ServiceVersions |->
  IF v = 1 THEN "failed to generate the best prayer"
           ELSE "an error occurred while generating the prayer"]
FunFallback == [v \in ServiceVersions |->
  IF v = 1 THEN "failed to generate the prayer"
           ELSE "an error occurred while generating the prayer"]
Fallbacks ==
  {SegmentFallback, SegmentCatchFallback}
    \cup {RepFallback[v] : v \in ServiceVersions}
    \cup {FunFallback[v] : v \in ServiceVersions}

\* the closing-formula instructions
RepClosing == "end with: in the name of our Lord Jesus Christ we pray. Amen."
FunClosing ==
  "end with: in the name of Jesus Christ, the resurrection and the life. Amen."

\* line 88 / 300: the sentence that goes with the tone
toneInstruction(settings) ==
  IF settings.prayerTone = "traditional" THEN "use the formal traditional style"
                                         ELSE "use the warm modern style"

\* one line of a prompt
Line(text, args) == [line |-> text, args |-> args]

\* lines 19-55: segmentPrompt of version 1
segmentPrompt(segmentName, season, churchName) ==
  IF includes(segmentName, "praise")
    THEN <<Line("search praise prayers of the season", <<season>>),
           Line("analyse the name of the church", <<churchName>>)>>
  ELSE IF includes(segmentName, "confession")
    THEN <<Line("search confession prayers", <<>>)>>
  ELSE IF includes(segmentName, "nation")
    THEN <<Line("search prayers for the nation", <<>>)>>
  ELSE IF includes(segmentName, "church")
    THEN <<Line("search prayers for the church", <<churchName>>)>>
  ELSE IF includes(segmentName, "suffering") \/ includes(segmentName, "healing")
    THEN <<Line("search healing prayers", <<>>)>>
  ELSE IF includes(segmentName, "preacher")
    THEN <<Line("search prayers for the preacher", <<>>)>>
  ELSE <<>>

\* lines 15 and 264: the season a segment prompt names; context.otherSeason is
\* undefined when the caller passes none
SegmentSeason(context) ==
  IF context.churchSeason = Other THEN context.otherSeason ELSE context.churchSeason

\* the prompt of generatePrayerSegment
SegmentPromptOf(version, segmentName, context) ==
  IF version = 1
    THEN <<Line("header", <<context.churchName, segmentName>>)>>
         \o segmentPrompt(segmentName, SegmentSeason(context), context.churchName)
         \o <<Line("rules", <<>>)>>
    ELSE <<Line("header", <<context.churchName, segmentName>>),
           Line("search phrases of the season", <<SegmentSeason(context)>>),
           Line("identity of the church", <<context.churchName, segmentName>>),
           Line("output only the prayer", <<>>)>>

finalServiceType(settings) ==
  IF settings.serviceType = Other THEN settings.otherServiceType
                                  ELSE settings.serviceType

finalChurchSeason(settings) ==
  IF settings.churchSeason = Other THEN settings.otherChurchSeason
                                   ELSE settings.churchSeason

\* the include flag and the line label of every section, in the order of
\* lines 97-102
includeFlags == <<"includeGraceAndSalvation", "includeConfessionAndForgiveness",
                  "includeNationWellbeing", "includeChurchNeeds",
                  "includeSpecialGraceAndHealing", "includePreacherFilling">>
sectionLabels == <<"praise", "confession", "nation", "church", "healing",
                   "preacher">>

\* the line of section i
SectionLine(settings, i) == Line(sectionLabels[i], <<settings[keys[i]]>>)

\* a service that emits every section
SectionIncludedAlways(settings, i) == TRUE

\* is section i emitted
SectionIncluded(settings, i) == settings[includeFlags[i]]

\* lines 96-102: the sections 1..n appended in order, each under its flag
RECURSIVE instructionPartsUpTo(_, _)
instructionPartsUpTo(settings, n) ==
  IF n = 0 THEN <<>>
  ELSE instructionPartsUpTo(settings, n - 1)
         \o (IF SectionIncluded(settings, n) THEN <<SectionLine(settings, n)>>
                                             ELSE <<>>)

instructionParts(settings) == instructionPartsUpTo(settings, NumSegments)

\* lines 322-327: version 2 lists the six sections whatever the settings say
numberedSections(settings) == [i \in 1..NumSegments |-> SectionLine(settings, i)]

\* the prompt of generateRepresentativePrayer
RepPromptOf(version, settings) ==
  IF version = 1
    THEN <<Line("task", <<finalChurchSeason(settings), finalServiceType(settings)>>),
           Line("churchName", <<settings.churchName>>),
           Line("pastor", <<settings.pastorName, settings.pastorTitle>>),
           Line("serviceType", <<finalServiceType(settings)>>),
           Line("churchSeason", <<finalChurchSeason(settings)>>),
           Line("tone", <<settings.prayerTone, toneInstruction(settings)>>),
           Line("duration", <<settings.prayerDuration>>)>>
         \o instructionParts(settings)
         \o <<Line("additionalRequests", <<settings.additionalRequests>>),
              Line(RepClosing, <<>>)>>
    ELSE <<Line("task", <<settings.churchName>>),
           Line("pastor", <<settings.pastorName, settings.pastorTitle>>),
           Line("serviceType", <<finalServiceType(settings), finalChurchSeason(settings)>>),
           Line("tone", <<settings.prayerTone, toneInstruction(settings)>>),
           Line("duration", <<settings.prayerDuration>>)>>
         \o numberedSections(settings)
         \o <<Line("additionalRequests", <<settings.additionalRequests>>),
              Line("include verses found with Google Search", <<>>)>>

\* the prompt of generateFuneralPrayer
FunPromptOf(version, settings) ==
  IF version = 1
    THEN <<Line("task", <<settings.funeralType>>),
           Line("deceased", <<settings.deceasedName, settings.deceasedTitle>>),
           Line("funeralType", <<settings.funeralType>>),
           Line("familyComfort", <<settings.familyComfort>>),
           Line("hopeOfResurrection", <<settings.hopeOfResurrection>>),
           Line("additionalRequests", <<settings.additionalRequests>>),
           Line(FunClosing, <<>>)>>
    ELSE <<Line("task", <<settings.deceasedName, settings.deceasedTitle,
                          settings.funeralType>>),
           Line("familyComfort", <<settings.familyComfort>>),
           Line("hopeOfResurrection", <<settings.hopeOfResurrection>>),
           Line("additionalRequests", <<settings.additionalRequests>>),
           Line("reflect verses found with Google Search", <<>>)>>

\* the inlineData part of one attachment
InlinePart(att) == [inlineData |-> [data |-> att.data, mimeType |-> att.mimeType]]

\* lines 128-138: the text part, then one part per attachment
PartsOf(prompt, attachments) ==
  <<[text |-> prompt]>> \o [i \in 1..Len(attachments) |-> InlinePart(attachments[i])]

\* what ai.models.generateContent may answer: response.text is undefined, a
\* string, or the call fails
ResponseTexts == {"undefined", "", " ", "amen"}

\* x || y on a response text
OrElse(text, fallback) == IF text \in {"undefined", ""} THEN fallback ELSE text

\* response.text?.trim()
TrimText(text) == IF text = "undefined" THEN text ELSE Trim(text)

\* ---- the inputs of the service
TITLES == {"Pastor", Other}
CHURCH_SEASONS == {"NoSeason", Other}

\* the files a user attaches (the base64 data, the MIME type, the file name)
AttachmentPool ==
  {[data |-> "iVBOR", mimeType |-> "image/png", fileName |-> "a.png"],
   [data |-> "JVBER", mimeType |-> "application/pdf", fileName |-> "b.pdf"]}

\* the attachment lists of at most n files
AttachmentListsUpTo(n) == UNION {[1..k -> AttachmentPool] : k \in 0..n}

AttachmentLists == AttachmentListsUpTo(MaxAttachments)

\* a filled-in RepresentativeSettings with this list of attachments
RepSettingsWith(title, service, season, flags, attachments) ==
  [churchName |-> "Grace Church", pastorName |-> "Kim", pastorTitle |-> title,
   serviceType |-> service, otherServiceType |-> "youth service",
   churchSeason |-> season, otherChurchSeason |-> "founding day",
   prayerTone |-> "modern", prayerDuration |-> "3 min",
   includeGraceAndSalvation |-> flags[1],
   includeConfessionAndForgiveness |-> flags[2],
   includeNationWellbeing |-> flags[3],
   includeChurchNeeds |-> flags[4],
   includeSpecialGraceAndHealing |-> flags[5],
   includePreacherFilling |-> flags[6],
   graceAndSalvation |-> "phrase 1", confessionAndForgiveness |-> "phrase 2",
   nationWellbeing |-> "phrase 3", churchNeeds |-> "phrase 4",
   specialGraceAndHealing |-> "phrase 5", preacherFilling |-> "phrase 6",
   additionalRequests |-> "for the youth", attachments |-> attachments]

\* a filled-in FuneralSettings with this list of attachments
FunSettingsWith(attachments) ==
  [deceasedName |-> "Lee", deceasedTitle |-> "Deacon", funeralType |-> "burial",
   familyComfort |-> "comfort", hopeOfResurrection |-> "hope",
   additionalRequests |-> "for the family", attachments |-> attachments]

AllIncluded == [i \in 1..NumSegments |-> TRUE]

\* the calls of generateRepresentativePrayer
RepCalls ==
  {[fn |-> "generateRepresentativePrayer", version |-> v,
    settings |-> RepSettingsWith(title, service, season, flags, atts)] :
     v \in ServiceVersions, title \in TITLES, service \in SERVICE_TYPES,
     season \in CHURCH_SEASONS, flags \in [1..NumSegments -> BOOLEAN],
     atts \in AttachmentLists}

\* the calls of generateFuneralPrayer
FunCalls ==
  {[fn |-> "generateFuneralPrayer", version |-> v, settings |-> FunSettingsWith(atts)] :
     v \in ServiceVersions, atts \in AttachmentLists}

\* lines 977-981: the calls of generatePrayerSegment by handleSearchSegment
SearchSegmentCalls ==
  {[fn |-> "generatePrayerSegment", version |-> 1, caller |-> "handleSearchSegment",
    segmentName |-> labels.rich[i],
    context |-> [churchName |-> "Grace Church", churchSeason |-> season,
                 otherSeason |-> "founding day"]] :
     i \in 1..NumSegments, season \in CHURCH_SEASONS}

\* App.tsx line 443: the calls by handleAIRecommendation, which passes no
\* otherSeason; the simple variant offers no control that changes churchSeason
RecommendationCalls ==
  {[fn |-> "generatePrayerSegment", version |-> 2, caller |-> "handleAIRecommendation",
    segmentName |-> labels.simple[i],
    context |-> [churchName |-> "Grace Church", churchSeason |-> "NoSeason",
                 otherSeason |-> "undefined"]] :
     i \in 1..NumSegments}

ServiceCalls == RepCalls \cup FunCalls \cup SearchSegmentCalls \cup RecommendationCalls

\* the call of generatePrayerSegment up to its await
generatePrayerSegment ==
  /\ svcResult = NoResult
  /\ svcCall.fn = "generatePrayerSegment"
  /\ svcResult' =
       [pc |-> "await_generateContent",
        request |-> SegmentPromptOf(svcCall.version, svcCall.segmentName,
                                    svcCall.context)]
  /\ UNCHANGED <<variant, now, view, settingsVars, segmentVars, speechVars,
                 downloadVars, genVars, calls, cancelled, alertMsg,
                 attachmentVars, svcCall, wavVars, sttVars>>

\* the call of generateRepresentativePrayer up to its await
generateRepresentativePrayer ==
  /\ svcResult = NoResult
  /\ svcCall.fn = "generateRepresentativePrayer"
  /\ svcResult' =
       [pc |-> "await_generateContent",
        request |-> PartsOf(RepPromptOf(svcCall.version, svcCall.settings),
                            svcCall.settings.attachments)]
  /\ UNCHANGED <<variant, now, view, settingsVars, segmentVars, speechVars,
                 downloadVars, genVars, calls, cancelled, alertMsg,
                 attachmentVars, svcCall, wavVars, sttVars>>

\* the call of generateFuneralPrayer up to its await
generateFuneralPrayer ==
  /\ svcResult = NoResult
  /\ svcCall.fn = "generateFuneralPrayer"
  /\ svcResult' =
       [pc |-> "await_generateContent",
        request |-> PartsOf(FunPromptOf(svcCall.version, svcCall.settings),
                            svcCall.settings.attachments)]
  /\ UNCHANGED <<variant, now, view, settingsVars, segmentVars, speechVars,
                 downloadVars, genVars, calls, cancelled, alertMsg,
                 attachmentVars, svcCall, wavVars, sttVars>>

\* is the await of this function inside a try block (lines 69-84, 278-292;
\* lines 140 and 193, 345 and 395 are not)
ServiceCatchesFailure(fn) == fn = "generatePrayerSegment"

\* the text the function returns for a response text
ReturnedText(fn, version, text) ==
  IF fn = "generatePrayerSegment" THEN OrElse(TrimText(text), SegmentFallback)
  ELSE IF fn = "generateRepresentativePrayer" THEN OrElse(text, RepFallback[version])
  ELSE OrElse(text, FunFallback[version])

\* generateContent resolved: the function returns
GenerateContentResolve(text) ==
  /\ svcResult.pc = "await_generateContent"
  /\ svcResult' =
       [pc |-> "returned", request |-> svcResult.request, api |-> text,
        text |-> ReturnedText(svcCall.fn, svcCall.version, text)]
  /\ UNCHANGED <<variant, now, view, settingsVars, segmentVars, speechVars,
                 downloadVars, genVars, calls, cancelled, alertMsg,
                 attachmentVars, svcCall, wavVars, sttVars>>

\* generateContent rejected: the catch block returns a text, and without a try
\* block the promise of the function rejects
GenerateContentReject ==
  /\ svcResult.pc = "await_generateContent"
  /\ svcResult' =
       IF ServiceCatchesFailure(svcCall.fn)
         THEN [pc |-> "returned", request |-> svcResult.request, api |-> "rejects",
               text |-> SegmentCatchFallback]
         ELSE [pc |-> "rejected", request |-> svcResult.request, api |-> "rejects",
               text |-> None]
  /\ UNCHANGED <<variant, now, view, settingsVars, segmentVars, speechVars,
                 downloadVars, genVars, calls, cancelled, alertMsg,
                 attachmentVars, svcCall, wavVars, sttVars>>

\* one service call with any input, in the variant that imports its version
InitService ==
  /\ svcCall \in ServiceCalls
  /\ svcResult = NoResult
  /\ variant = (IF svcCall.version = 1 THEN "rich" ELSE "simple")
  /\ InitCommon
  /\ AttachmentsEmpty /\ WavIdle /\ SttIdle

NextService ==
  \/ generatePrayerSegment
  \/ generateRepresentativePrayer
  \/ generateFuneralPrayer
  \/ \E text \in ResponseTexts : GenerateContentResolve(text)
  \/ GenerateContentReject

SpecService == InitService /\ [][NextService]_vars

\* C11: the three text-generating functions, in both versions of the service,
\* never reject, and when generateContent fails or answers without a text the
\* text they return is one of the fixed fallback strings.
C11_FailureMappedToFallback ==
  /\ svcResult.pc # "rejected"
  /\ (svcResult.pc = "returned" /\ svcResult.api \in {"rejects", "undefined", ""})
       => svcResult.text \in Fallbacks

\* ---------------------------------------------------- speech failures (C12)
\* this step runs the catch block of call r: generateSpeech (lines 217-242
\* rethrow every failure, a response without audio data included) or
\* decodeAudioData rejected
IsFailure(r) ==
  /\ calls[r].kind \in {"speech", "download"}
  /\ calls[r].pc \in AwaitLabels
  /\ calls'[r].pc = "caught"

\* C12: when a speech or download request fails, the handler shows the alert
\* and turns its progress flags off exactly when its token is still the stored
\* one; the failure of a cancelled or superseded request shows no alert and
\* changes no state.
C12_FailureAlertIffCurrent ==
  [][\A r \in DOMAIN calls :
       IsFailure(r) =>
         /\ (alertMsg' # "") <=> (calls[r].token = Token(calls[r].slot))
         /\ (calls[r].token = Token(calls[r].slot)) => ~Busy(calls[r].slot)'
         /\ (r \in cancelled \/ r # LastBegun(calls[r].slot))
              => /\ alertMsg' = ""
                 /\ UNCHANGED <<speechVars, downloadVars>>]_vars

\* =========================================================== speech input
\* the state of the App component that speech input, createWavBlob and the
\* service functions leave alone
appVars == <<now, view, settingsVars, segmentVars, speechVars, downloadVars,
             genVars, calls, cancelled>>

\* the three entry points: handleStartSTT (rich variant, the familyComfort
\* field), AccordionField.triggerSpeechInput and CustomFormField.handleSpeech
\* (simple variant)
SttEntries == {"handleStartSTT", "triggerSpeechInput", "handleSpeech"}

VariantOf(entry) == IF entry = "handleStartSTT" THEN "rich" ELSE "simple"

\* the text a recognition hears
Transcript == "heard"

\* a value of the field: the list of its words
FieldValues == {<<>>, <<"typed">>}

\* new SpeechRecog() followed by recognition.start(): the object is created
\* with its handlers, which close over the value prop of this render
StartRecognition ==
  /\ Len(recognitions) < MaxRecognitions
  /\ recognitions' = Append(recognitions, [status |-> "started", value |-> sttValue,
                                           stopped |-> FALSE])

\* history: the user has pressed the microphone button, with the listening
\* indicator on, while these recognitions were running
MarkStopped(running) ==
  [k \in DOMAIN recognitions |->
     IF k \in running THEN [recognitions[k] EXCEPT !.stopped = TRUE]
                      ELSE recognitions[k]]

\* recognition.abort(): a recognition that has not ended will end
Abort(k) ==
  recognitions' =
    [MarkStopped({k}) EXCEPT ![k].status = IF @ = "ended" THEN @ ELSE "stopping"]

\* lines 1095-1134
handleStartSTT ==
  /\ sttEntry = "handleStartSTT"
  /\ activated' = TRUE
  /\ IF ~speechRecognition
       THEN /\ alertMsg' = "speech recognition is not supported"
            /\ UNCHANGED <<isListening, recognitions>>
       ELSE /\ alertMsg' = ""
            /\ IF isListening
                 THEN /\ isListening' = FALSE
                      /\ recognitions' =
                           MarkStopped({k \in DOMAIN recognitions :
                                          recognitions[k].status = "listening"})
                 ELSE /\ StartRecognition
                      /\ UNCHANGED isListening
  /\ UNCHANGED <<variant, appVars, attachmentVars, serviceVars, wavVars,
                 speechRecognition, sttEntry, recognitionInstance, sttValue>>

\* does the entry point tell the user that speech recognition is missing
\* (App.tsx lines 150-154 do, line 291 does not)
AlertsWhenUnsupported(entry) == entry = "triggerSpeechInput"

\* App.tsx lines 141-171 and 284-304
SimpleSpeechInput(entry) ==
  /\ sttEntry = entry
  /\ activated' = TRUE
  /\ IF isListening /\ recognitionInstance # Null
       THEN /\ Abort(recognitionInstance)
            /\ isListening' = FALSE
            /\ alertMsg' = ""
            /\ UNCHANGED recognitionInstance
       ELSE IF ~speechRecognition
         THEN /\ alertMsg' = IF AlertsWhenUnsupported(entry)
                               THEN "speech recognition is not supported" ELSE ""
              /\ UNCHANGED <<isListening, recognitions, recognitionInstance>>
         ELSE /\ StartRecognition
              /\ recognitionInstance' = Len(recognitions')
              /\ alertMsg' = ""
              /\ UNCHANGED isListening
  /\ UNCHANGED <<variant, appVars, attachmentVars, serviceVars, wavVars,
                 speechRecognition, sttEntry, sttValue>>

triggerSpeechInput == SimpleSpeechInput("triggerSpeechInput")

handleSpeech == SimpleSpeechInput("handleSpeech")

\* recognition.onstart
OnStart(k) ==
  /\ k \in DOMAIN recognitions
  /\ recognitions[k].status = "started"
  /\ recognitions' = [recognitions EXCEPT ![k].status = "listening"]
  /\ isListening' = TRUE
  /\ activated' = FALSE
  /\ alertMsg' = ""
  /\ UNCHANGED <<variant, appVars, attachmentVars, serviceVars, wavVars,
                 speechRecognition, sttEntry, recognitionInstance, sttValue>>

\* recognition.onresult: the rich handler appends to the current value of the
\* field, the simple handlers to the value of the render that created them
OnResult(k) ==
  /\ k \in DOMAIN recognitions
  /\ recognitions[k].status = "listening"
  /\ recognitions' = [recognitions EXCEPT ![k].status = "stopping"]
  /\ IF sttEntry = "handleStartSTT"
       THEN /\ sttValue' = Append(sttValue, Transcript)
            /\ UNCHANGED isListening
       ELSE /\ sttValue' = Append(recognitions[k].value, Transcript)
            /\ isListening' = FALSE
  /\ activated' = FALSE
  /\ alertMsg' = ""
  /\ UNCHANGED <<variant, appVars, attachmentVars, serviceVars, wavVars,
                 speechRecognition, sttEntry, recognitionInstance>>

\* recognition.onerror; handleSpeech registers no handler for it
OnError(k) ==
  /\ k \in DOMAIN recognitions
  /\ recognitions[k].status \in {"started", "listening"}
  /\ recognitions' = [recognitions EXCEPT ![k].status = "stopping"]
  /\ isListening' = IF sttEntry = "handleSpeech" THEN isListening ELSE FALSE
  /\ activated' = FALSE
  /\ alertMsg' = ""
  /\ UNCHANGED <<variant, appVars, attachmentVars, serviceVars, wavVars,
                 speechRecognition, sttEntry, recognitionInstance, sttValue>>

\* recognition.onend
OnEnd(k) ==
  /\ k \in DOMAIN recognitions
  /\ recognitions[k].status \in {"listening", "stopping"}
  /\ recognitions' = [recognitions EXCEPT ![k].status = "ended"]
  /\ isListening' = FALSE
  /\ activated' = FALSE
  /\ alertMsg' = ""
  /\ UNCHANGED <<variant, appVars, attachmentVars, serviceVars, wavVars,
                 speechRecognition, sttEntry, recognitionInstance, sttValue>>

\* typing into the field
EditSttField(v) ==
  /\ sttValue' = v
  /\ sttValue' # sttValue
  /\ activated' = FALSE
  /\ alertMsg' = ""
  /\ UNCHANGED <<variant, appVars, attachmentVars, serviceVars, wavVars,
                 speechRecognition, sttEntry, isListening, recognitionInstance,
                 recognitions>>

\* one field with its microphone button, in a browser with or without the
\* SpeechRecognition constructor
InitStt ==
  /\ speechRecognition \in BOOLEAN
  /\ sttEntry \in SttEntries
  /\ variant = VariantOf(sttEntry)
  /\ isListening = FALSE
  /\ recognitionInstance = Null
  /\ recognitions = <<>>
  /\ sttValue \in FieldValues
  /\ activated = FALSE
  /\ InitCommon
  /\ AttachmentsEmpty /\ ServiceIdle /\ WavIdle

NextStt ==
  \/ handleStartSTT
  \/ triggerSpeechInput
  \/ handleSpeech
  \/ \E k \in 1..MaxRecognitions : OnStart(k)
  \/ \E k \in 1..MaxRecognitions : OnResult(k)
  \/ \E k \in 1..MaxRecognitions : OnError(k)
  \/ \E k \in 1..MaxRecognitions : OnEnd(k)
  \/ \E v \in FieldValues : EditSttField(v)

SpecStt == InitStt /\ [][NextStt]_vars

\* C13: where the browser offers no speech recognition, activating speech
\* input shows an alert at once, starts no recognition, leaves the listening
\* indicator false and the value of the field unchanged, whichever entry point
\* is used.
C13_UnsupportedDetectedBeforeUse ==
  [][(~speechRecognition /\ activated')
       => /\ alertMsg' # ""
          /\ recognitions' = recognitions
          /\ ~isListening'
          /\ sttValue' = sttValue]_vars

\* ------------------------------------------------- prompts (C14, C15, C16)
\* the prompt of the call under examination: generatePrayerSegment sends it
\* as the contents, the other two as the text part
PromptSent ==
  IF svcCall.fn = "generatePrayerSegment" THEN svcResult.request
                                          ELSE svcResult.request[1].text

\* the values interpolated into a prompt
PromptValues(prompt) ==
  UNION {{prompt[i].args[k] : k \in DOMAIN prompt[i].args} : i \in DOMAIN prompt}

\* C14: when serviceType, churchSeason or pastorTitle is the sentinel, the
\* prompt of generateRepresentativePrayer, and the prompt of
\* generatePrayerSegment as handleSearchSegment and handleAIRecommendation call
\* it, renders the paired free-text value and nowhere the sentinel.
C14_OtherSentinelSubstituted ==
  svcResult.pc # "idle" =>
    IF svcCall.fn = "generateRepresentativePrayer"
      THEN LET settings == svcCall.settings
               rendered == PromptValues(PromptSent)
           IN /\ settings.serviceType = Other => settings.otherServiceType \in rendered
              /\ settings.churchSeason = Other => settings.otherChurchSeason \in rendered
              /\ Other \in {settings.serviceType, settings.churchSeason,
                            settings.pastorTitle}
                   => Other \notin rendered
    ELSE IF svcCall.fn = "generatePrayerSegment"
      THEN svcCall.context.churchSeason = Other
             => /\ Other \notin PromptValues(PromptSent)
                /\ "undefined" \notin PromptValues(PromptSent)
    ELSE TRUE

\* is this line of a prompt the line of a section
IsSectionLine(l) == \E i \in 1..NumSegments : l.line = sectionLabels[i]

\* the instruction lines of a prompt
InstructionLines(prompt) == SelectSeq(prompt, IsSectionLine)

\* the section a section line belongs to
SectionOf(l) == CHOOSE i \in 1..NumSegments : l.line = sectionLabels[i]

\* a sequence without the entries equal to x
Without(seq, x) == LET Keep(e) == e # x IN SelectSeq(seq, Keep)

\* version 1 of generateRepresentativePrayer has built its prompt
RepPromptBuilt ==
  /\ svcCall.fn = "generateRepresentativePrayer"
  /\ svcCall.version = 1
  /\ svcResult.pc # "idle"

\* C15: the instruction lines generateRepresentativePrayer emits are exactly
\* the lines of the sections whose include flag is true, each once, in the
\* order praise, confession, nation, church, healing, preacher; with the flag
\* of one section set to false the prompt loses that section's line and keeps
\* the other lines and their order.
C15_SectionInclusionToggle ==
  RepPromptBuilt =>
    LET settings == svcCall.settings
        lines == InstructionLines(PromptSent)
    IN /\ \A i \in 1..NumSegments :
            settings[includeFlags[i]]
              <=> (\E k \in DOMAIN lines : lines[k] = SectionLine(settings, i))
       /\ \A k \in DOMAIN lines :
            lines[k] = SectionLine(settings, SectionOf(lines[k]))
       /\ \A j, k \in DOMAIN lines :
            j < k => SectionOf(lines[j]) < SectionOf(lines[k])
       /\ \A i \in 1..NumSegments :
            settings[includeFlags[i]] =>
              InstructionLines(
                  RepPromptOf(1, [settings EXCEPT ![includeFlags[i]] = FALSE]))
                = Without(lines, SectionLine(settings, i))

C15_Witness ==
  /\ RepPromptBuilt
  /\ ~svcCall.settings.includeConfessionAndForgiveness
  /\ ~svcCall.settings.includeChurchNeeds
  /\ Len(InstructionLines(PromptSent)) = NumSegments - 2

\* the last line of a prompt
LastLine(prompt) == prompt[Len(prompt)]

\* C16: the prompt of generateRepresentativePrayer ends with the representative
\* closing-formula instruction and the prompt of generateFuneralPrayer with the
\* funeral one, in both versions of the service and for every settings record.
C16_ClosingFormulaLast ==
  svcResult.pc # "idle" =>
    /\ svcCall.fn = "generateRepresentativePrayer"
         => LastLine(PromptSent) = Line(RepClosing, <<>>)
    /\ svcCall.fn = "generateFuneralPrayer"
         => LastLine(PromptSent) = Line(FunClosing, <<>>)

\* ========================================================== createWavBlob
\* Bytes are the numbers 0..255 and a buffer is a sequence of bytes (offset o
\* is index o + 1).  A number to be stored in a 32-bit field is carried as its
\* two 16-bit halves <<low, high>>, so that the doubling of line 474 is done
\* modulo 2^32 as DataView.setUint32 does.
Halves(n) == <<n % 65536, n \div 65536>>

\* ToUint32(2 * n) for n given by its halves
Twice(h) == <<(2 * h[1]) % 65536, (2 * h[2] + (2 * h[1]) \div 65536) % 65536>>

\* new ArrayBuffer(n)
ArrayBuffer(n) == [i \in 1..n |-> 0]

\* DataView.prototype.setUint16(offset, value, littleEndian)
setUint16(dataView, offset, value, littleEndian) ==
  LET low == value % 256
      high == (value \div 256) % 256
  IN [dataView EXCEPT ![offset + 1] = IF littleEndian THEN low ELSE high,
                  ![offset + 2] = IF littleEndian THEN high ELSE low]

\* DataView.prototype.setUint32(offset, value, littleEndian), the value given
\* by its halves
setUint32(dataView, offset, h, littleEndian) ==
  IF littleEndian
    THEN setUint16(setUint16(dataView, offset, h[1], TRUE), offset + 2, h[2], TRUE)
    ELSE setUint16(setUint16(dataView, offset, h[2], FALSE), offset + 2, h[1], FALSE)

\* a header whose byte rate is the sample rate
ByteRateOfOneByteSamples(rate) == rate

\* line 474: sampleRate * 2
ByteRate(rate) == Twice(rate)

\* the four-character codes, as the halves of 0x52494646, 0x57415645,
\* 0x666d7420 and 0x64617461
RIFF == <<17990, 21065>>
WAVE == <<22085, 22337>>
FmtChunk == <<29728, 26221>>
DataChunk == <<29793, 25697>>

\* lines 453-485; new Blob([header, pcmData]) is the header followed by the data
createWavBlob(data, rate) ==
  LET v0 == ArrayBuffer(44)
      v1 == setUint32(v0, 0, RIFF, FALSE)
      v2 == setUint32(v1, 4, Halves(36 + Len(data)), TRUE)
      v3 == setUint32(v2, 8, WAVE, FALSE)
      v4 == setUint32(v3, 12, FmtChunk, FALSE)
      v5 == setUint32(v4, 16, Halves(16), TRUE)
      v6 == setUint16(v5, 20, 1, TRUE)
      v7 == setUint16(v6, 22, 1, TRUE)
      v8 == setUint32(v7, 24, rate, TRUE)
      v9 == setUint32(v8, 28, ByteRate(rate), TRUE)
      v10 == setUint16(v9, 32, 2, TRUE)
      v11 == setUint16(v10, 34, 16, TRUE)
      v12 == setUint32(v11, 36, DataChunk, FALSE)
      header == setUint32(v12, 40, Halves(Len(data)), TRUE)
  IN header \o data

\* the inputs: payloads of at most MaxPcmLen bytes, and sample rates up to
\* 2^32 - 1, among them 2^31 - 1, 2^31 and 2^31 + 24000
PcmBytes == {0, 128, 255}
PcmPayloads == UNION {[1..n -> PcmBytes] : n \in 0..MaxPcmLen}
SampleRates ==
  {Halves(1), Halves(8000), Halves(24000), Halves(44100), Halves(65536),
   <<65535, 32767>>, <<0, 32768>>, <<24000, 32768>>, <<65535, 65535>>}

\* the call of createWavBlob (line 1204 passes 24000)
CreateWavBlob ==
  /\ wavBlob = <<>>
  /\ wavBlob' = createWavBlob(pcmData, sampleRate)
  /\ UNCHANGED <<variant, appVars, alertMsg, attachmentVars, serviceVars, sttVars,
                 pcmData, sampleRate>>

InitWav ==
  /\ variant = "rich"
  /\ pcmData \in PcmPayloads
  /\ sampleRate \in SampleRates
  /\ wavBlob = <<>>
  /\ InitCommon
  /\ AttachmentsEmpty /\ ServiceIdle /\ SttIdle

NextWav == CreateWavBlob

SpecWav == InitWav /\ [][NextWav]_vars

\* the 16-bit little-endian field at an offset
U16LE(blob, offset) == blob[offset + 1] + 256 * blob[offset + 2]

\* the 32-bit little-endian field at an offset is the number with halves h
U32LEIs(blob, offset, h) ==
  /\ U16LE(blob, offset) = h[1]
  /\ U16LE(blob, offset + 2) = h[2]

\* the 32-bit little-endian field at an offset is twice the number with
\* halves h, modulo 2^32: it is even and its half is that number modulo 2^31
U32LEIsTwice(blob, offset, h) ==
  /\ blob[offset + 1] % 2 = 0
  /\ (blob[offset + 1] \div 2) + 128 * blob[offset + 2]
       + 32768 * U16LE(blob, offset + 2)
       = h[1] + 65536 * (h[2] % 32768)

\* C17: createWavBlob returns the N bytes of the payload, unchanged, behind a
\* 44-byte header whose little-endian fields are 36+N (offset 4), N (40), the
\* sample rate (24), twice the sample rate modulo 2^32 (28) and 1, 1, 2, 16
\* (offsets 20, 22, 32, 34).
C17_WavEncoding ==
  wavBlob # <<>> =>
    /\ Len(wavBlob) = Len(pcmData) + 44
    /\ SubSeq(wavBlob, 45, Len(wavBlob)) = pcmData
    /\ \A i \in 1..Len(wavBlob) : wavBlob[i] \in 0..255
    /\ U32LEIs(wavBlob, 4, Halves(36 + Len(pcmData)))
    /\ U32LEIs(wavBlob, 40, Halves(Len(pcmData)))
    /\ U32LEIs(wavBlob, 24, sampleRate)
    /\ U32LEIsTwice(wavBlob, 28, sampleRate)
    /\ U16LE(wavBlob, 20) = 1
    /\ U16LE(wavBlob, 22) = 1
    /\ U16LE(wavBlob, 32) = 2
    /\ U16LE(wavBlob, 34) = 16

C17_Witness ==
  /\ Len(wavBlob) = 44 + MaxPcmLen
  /\ sampleRate = <<24000, 32768>>
  /\ pcmData[1] = 255

\* ============================================================ attachments
PrayerTypes == {"REPRESENTATIVE", "FUNERAL"}

\* the attachment list of a prayer type
AttachmentsOf(target) ==
  IF target = "REPRESENTATIVE" THEN repAttachments ELSE funAttachments

\* setRepSettings / setFunSettings with a new attachment list
SetAttachments(target, list) ==
  IF target = "REPRESENTATIVE"
    THEN repAttachments' = list /\ UNCHANGED funAttachments
    ELSE funAttachments' = list /\ UNCHANGED repAttachments

\* a filter that drops the first element whatever the index
FilterOutFirst(list, idx) == Tail(list)

\* attachments.filter((_, i) => i !== idx), idx counted from 0
FilterOutIndex(list, idx) ==
  [k \in 1..(Len(list) - (IF idx < Len(list) THEN 1 ELSE 0)) |->
     IF k - 1 < idx THEN list[k] ELSE list[k + 1]]

\* the attachment handlers change nothing else
AttachmentFrame ==
  /\ alertMsg' = ""
  /\ UNCHANGED <<variant, appVars, readers, serviceVars, wavVars, sttVars>>

\* lines 1508 and 1568: a file was read (FormField, lines 703-776)
onAttachment(target, att) ==
  /\ variant = "rich"
  /\ Len(AttachmentsOf(target)) < MaxAttachments
  /\ SetAttachments(target, AttachmentsOf(target) \o <<att>>)
  /\ AttachmentFrame

\* lines 1509 and 1569: the remove button of thumbnail idx
onImageRemove(target, idx) ==
  /\ variant = "rich"
  /\ idx \in 0..(Len(AttachmentsOf(target)) - 1)
  /\ SetAttachments(target, FilterOutIndex(AttachmentsOf(target), idx))
  /\ AttachmentFrame

\* lines 1511 and 1571: the button rendered while there are attachments
onClearAttachments(target) ==
  /\ variant = "rich"
  /\ Len(AttachmentsOf(target)) > 0
  /\ SetAttachments(target, <<>>)
  /\ AttachmentFrame

\* App.tsx lines 421-427
handleFileAttachment(target, att) ==
  /\ variant = "simple"
  /\ Len(AttachmentsOf(target)) < MaxAttachments
  /\ SetAttachments(target, AttachmentsOf(target) \o <<att>>)
  /\ AttachmentFrame

\* App.tsx lines 429-435
handleFileRemoval(target, idx) ==
  /\ variant = "simple"
  /\ idx \in 0..(Len(AttachmentsOf(target)) - 1)
  /\ SetAttachments(target, FilterOutIndex(AttachmentsOf(target), idx))
  /\ AttachmentFrame

\* the version of the service a variant imports
VersionOf(v) == IF v = "rich" THEN 1 ELSE 2

\* lines 1024 and 1055, App.tsx lines 453 and 463: the settings record, with
\* its attachment list, is handed to the service
CallService(target) ==
  /\ svcCall = NoCall
  /\ svcCall' =
       IF target = "REPRESENTATIVE"
         THEN [fn |-> "generateRepresentativePrayer", version |-> VersionOf(variant),
               settings |-> RepSettingsWith("Pastor", "SundayService", "NoSeason",
                                            AllIncluded, repAttachments)]
         ELSE [fn |-> "generateFuneralPrayer", version |-> VersionOf(variant),
               settings |-> FunSettingsWith(funAttachments)]
  /\ alertMsg' = ""
  /\ UNCHANGED <<variant, appVars, attachmentVars, svcResult, wavVars, sttVars>>

InitAttach ==
  /\ variant \in Variants
  /\ InitCommon
  /\ InitAux

NextAttach ==
  \/ \E target \in PrayerTypes, att \in AttachmentPool : onAttachment(target, att)
  \/ \E target \in PrayerTypes, idx \in 0..(MaxAttachments - 1) :
       onImageRemove(target, idx)
  \/ \E target \in PrayerTypes : onClearAttachments(target)
  \/ \E target \in PrayerTypes, att \in AttachmentPool :
       handleFileAttachment(target, att)
  \/ \E target \in PrayerTypes, idx \in 0..(MaxAttachments - 1) :
       handleFileRemoval(target, idx)
  \/ \E target \in PrayerTypes : CallService(target)
  \/ generateRepresentativePrayer
  \/ generateFuneralPrayer

SpecAttach == InitAttach /\ [][NextAttach]_vars

\* the other prayer type
OtherType(target) == IF target = "REPRESENTATIVE" THEN "FUNERAL" ELSE "REPRESENTATIVE"

\* the list without its element at position i (counted from 1)
DeleteAt(list, i) == SubSeq(list, 1, i - 1) \o SubSeq(list, i + 1, Len(list))

\* the request of a full-prayer call carries the text part and then one
\* inlineData part per attachment of the settings, in list order
RequestCarriesAttachments ==
  (svcCall.fn \in {"generateRepresentativePrayer", "generateFuneralPrayer"}
     /\ svcResult.pc # "idle")
    => LET request == svcResult.request
           attachments == svcCall.settings.attachments
       IN /\ Len(request) = 1 + Len(attachments)
          /\ DOMAIN request[1] = {"text"}
          /\ \A k \in 1..Len(attachments) :
               request[k + 1] =
                 [inlineData |-> [data |-> attachments[k].data,
                                  mimeType |-> attachments[k].mimeType]]

\* C18: adding appends the new attachment behind the unchanged list; removing
\* index i deletes the element at position i and keeps the rest in order;
\* clearing empties the list; none of them changes an attachment that stays
\* or the list of the other prayer type; the service is handed the current
\* list and its request carries one inlineData part per attachment, in list
\* order, after the single text part.
C18_AttachmentListOperations ==
  [][/\ \A target \in PrayerTypes :
          LET old == AttachmentsOf(target)
              new == AttachmentsOf(target)'
              other == OtherType(target)
          IN /\ \A att \in AttachmentPool :
                  (onAttachment(target, att) \/ handleFileAttachment(target, att))
                    => /\ Len(new) = Len(old) + 1
                       /\ SubSeq(new, 1, Len(old)) = old
                       /\ new[Len(new)] = att
                       /\ AttachmentsOf(other)' = AttachmentsOf(other)
             /\ \A idx \in 0..(MaxAttachments - 1) :
                  (onImageRemove(target, idx) \/ handleFileRemoval(target, idx))
                    => /\ new = DeleteAt(old, idx + 1)
                       /\ AttachmentsOf(other)' = AttachmentsOf(other)
             /\ onClearAttachments(target)
                  => /\ new = <<>>
                     /\ AttachmentsOf(other)' = AttachmentsOf(other)
             /\ CallService(target)
                  => /\ svcCall'.settings.attachments = old
                     /\ UNCHANGED attachmentVars
     /\ RequestCarriesAttachments']_vars

C18_Witness ==
  /\ svcCall.fn = "generateRepresentativePrayer"
  /\ svcResult.pc # "idle"
  /\ Len(svcResult.request) = 1 + MaxAttachments
  /\ svcResult.request[2] # svcResult.request[3]
  /\ Len(repAttachments) = 1
  /\ repAttachments[1] = svcCall.settings.attachments[2]
  /\ funAttachments # <<>>

\* ================================================================== reset
\* a dialog that does not wait for the answer
windowConfirmIgnored(answer) == TRUE

\* window.confirm(...): does the user agree
windowConfirm(answer) == answer

\* lines 1036-1045: the reset button of the REP_SETTINGS view
handleResetRep(answer) ==
  /\ variant = "rich"
  /\ ~isLoading
  /\ view = "REP_SETTINGS"
  /\ IF windowConfirm(answer)
       THEN /\ repSettings' = DEFAULT_REP_SETTINGS
            /\ repAttachments' = <<>>
            /\ attemptedSubmit' = FALSE
       ELSE UNCHANGED <<repSettings, repAttachments, attemptedSubmit>>
  /\ alertMsg' = ""
  /\ UNCHANGED <<variant, now, view, funSettings, funAttachments, readers, segmentVars,
                 speechVars, downloadVars, genVars, calls, cancelled, serviceVars,
                 wavVars, sttVars>>

\* lines 1068-1077: the reset button of the FUN_SETTINGS view
handleResetFun(answer) ==
  /\ variant = "rich"
  /\ ~isLoading
  /\ view = "FUN_SETTINGS"
  /\ IF windowConfirm(answer)
       THEN /\ funSettings' = DEFAULT_FUN_SETTINGS
            /\ funAttachments' = <<>>
            /\ attemptedSubmit' = FALSE
       ELSE UNCHANGED <<funSettings, funAttachments, attemptedSubmit>>
  /\ alertMsg' = ""
  /\ UNCHANGED <<variant, now, view, repSettings, repAttachments, readers, segmentVars,
                 speechVars, downloadVars, genVars, calls, cancelled, serviceVars,
                 wavVars, sttVars>>

\* the file attached in the behaviours of the reset specification
ImageFiles == {att \in AttachmentPool : att.mimeType = "image/png"}

NextReset ==
  \/ \E f \in {"churchName", "pastorName"} : EditRepField(f, "x")
  \/ EditFunField("deceasedName", "x")
  \/ \E v \in SettingsViews : changeView(v)
  \/ \E target \in PrayerTypes, att \in ImageFiles : onAttachment(target, att)
  \/ OnGenerateRep
  \/ OnGenerateFun
  \/ \E r \in 1..MaxCalls : GenResolve(r)
  \/ \E answer \in BOOLEAN : handleResetRep(answer)
  \/ \E answer \in BOOLEAN : handleResetFun(answer)

SpecReset == Init /\ [][NextReset]_vars

\* everything the program holds (alertMsg records the alert of a step)
programVars == <<variant, appVars, auxVars>>

\* C19: a confirmed handleResetRep sets repSettings to the default record with
\* no attachments and attemptedSubmit to false, and leaves funSettings with its
\* attachments, the view and the generated prayer as they were; handleResetFun
\* does the same with the two prayer types exchanged; a declined confirmation
\* changes no state.
C19_ResetToDefaults ==
  [][/\ handleResetRep(TRUE)
          => /\ repSettings' = DEFAULT_REP_SETTINGS
             /\ repAttachments' = <<>>
             /\ attemptedSubmit' = FALSE
             /\ UNCHANGED <<funSettings, funAttachments, view, generatedPrayer>>
     /\ handleResetFun(TRUE)
          => /\ funSettings' = DEFAULT_FUN_SETTINGS
             /\ funAttachments' = <<>>
             /\ attemptedSubmit' = FALSE
             /\ UNCHANGED <<repSettings, repAttachments, view, generatedPrayer>>
     /\ (handleResetRep(FALSE) \/ handleResetFun(FALSE))
          => UNCHANGED programVars]_vars

\* a representative prayer was generated from filled-in settings, and the
\* settings are the defaults again while the funeral form keeps its entries
C19_Witness ==
  /\ \E r \in DOMAIN calls : calls[r].kind = "rep" /\ calls[r].pc = "done"
  /\ repSettings = DEFAULT_REP_SETTINGS
  /\ repAttachments = <<>>
  /\ funSettings # DEFAULT_FUN_SETTINGS
  /\ funAttachments # <<>>
  /\ generatedPrayer # NoText
  /\ view = "REP_SETTINGS"

\* C20: in the rich variant the cancel control of every segment slot, used
\* while the slot is searching, dispatches no generation call, invalidates the
\* token of the slot and leaves the searching flag of the slot false.
C20_CancelControlCancels ==
  [][\A index \in Segments :
       OnCancelSearch(index)
         => /\ calls' = calls
            /\ activeRequestsRef'[index] = CancelToken
            /\ \A r \in InFlight(index) : calls[r].token # activeRequestsRef'[index]
            /\ ~searchingStates'[index]]_vars

\* =============================================================== progress
\* the begins, cancels and completions of both variants, on the slot whose
\* cancel control restarts the search and on one with an ordinary cancel
NextLive ==
  \/ \E f \in {"churchName", "pastorName"} : EditRepField(f, "x")
  \/ \E i \in {1, MaxSegment} : OnSearch(i)
  \/ \E i \in {1, MaxSegment} : OnCancelSearch(i)
  \/ \E r \in 1..MaxCalls : SegmentResolve(r)
  \/ handleToggleSpeech
  \/ \E r \in 1..MaxCalls : SpeechResolve(r)
  \/ \E r \in 1..MaxCalls : SpeechReject(r)
  \/ \E r \in 1..MaxCalls : DecodeResolve(r)
  \/ \E r \in 1..MaxCalls : DecodeReject(r)
  \/ \E r \in 1..MaxCalls : SourceEnded(r)
  \/ handleDownloadAudio
  \/ \E r \in 1..MaxCalls : DownloadResolve(r)
  \/ \E r \in 1..MaxCalls : DownloadReject(r)
  \/ OnGenerateRep
  \/ handleCancelLoading
  \/ \E r \in 1..MaxCalls : GenResolve(r)
  \/ \E r \in 1..MaxCalls : GenReject(r)
  \/ submitRepPrayer
  \/ \E r \in 1..MaxCalls : SubmitResolve(r)
  \/ \E r \in 1..MaxCalls : SubmitReject(r)
  \/ \E i \in {1, MaxSegment} : handleAIRecommendation(i)
  \/ \E r \in 1..MaxCalls : RecommendationResolve(r)

\* the promise call r awaits settles, one way or the other
Settle(r) ==
  \/ SegmentResolve(r)
  \/ SpeechResolve(r) \/ SpeechReject(r)
  \/ DecodeResolve(r) \/ DecodeReject(r)
  \/ DownloadResolve(r) \/ DownloadReject(r)
  \/ GenResolve(r) \/ GenReject(r)
  \/ SubmitResolve(r) \/ SubmitReject(r)
  \/ RecommendationResolve(r)

\* every dispatched call eventually resolves or rejects
SpecLive ==
  InitGen /\ [][NextLive]_vars /\ \A r \in 1..MaxCalls : WF_vars(Settle(r))

\* C21: when every dispatched call eventually resolves or rejects and the user
\* eventually starts no further request, every busy indicator
\* (searchingStates[i] / searchStatus[i], isPreparingSpeech, isDownloading,
\* isLoading / isProcessing) eventually is off and stays off, after any
\* interleaving of begins, cancels and completions.
C21_BusyEventuallyClears ==
  <>[](/\ \A i \in Segments : ~searchingStates[i]
       /\ ~isPreparingSpeech
       /\ ~isDownloading
       /\ ~isLoading)

\* a superseded search returned at its token check, the search that replaced
\* it has completed, and the slot's indicator is off
C21_Witness ==
  \E i \in Segments : \E r, q \in IdsOn(i) :
    /\ r < q
    /\ calls[r].kind = "segment" /\ calls[r].pc = "returned_stale"
    /\ calls[q].pc = "done"
    /\ ~searchingStates[i]

\* C22: when handleSearchSegment is called and validateRepFields fails, no call
\* is dispatched or cancelled and the tokens, the busy indicators and the
\* settings fields are unchanged (only attemptedSubmit becomes true); a
\* request in flight on the slot stays current, and its response is applied
\* when it arrives.
C22_RejectedSearchChangesNothing ==
  /\ [][(~validateRepFields /\ alertMsg' = "complete the required settings first")
          => /\ attemptedSubmit'
             /\ UNCHANGED <<calls, cancelled, activeRequestsRef, searchingStates,
                            repSettings, funSettings>>]_vars
  /\ [][\A r \in DOMAIN calls :
          (/\ attemptedSubmit
           /\ calls[r].kind = "segment"
           /\ IsDelivery(r)
           /\ calls[r].token = activeRequestsRef[calls[r].slot])
            => /\ repSettings'[keys[calls[r].slot]] = ResponseText(r)
               /\ ~searchingStates'[calls[r].slot]]_vars

\* the search of slot 1 is in flight and current, a required field has been
\* emptied, and the step just taken was a rejected handleSearchSegment(1)
C22_Witness ==
  /\ alertMsg = "complete the required settings first"
  /\ ~validateRepFields
  /\ searchingStates[1]
  /\ \E r \in InFlight(1) : calls[r].token = activeRequestsRef[1]

\* ================================================= the two validation gates
\* what a user can leave in a text input: nothing, a blank, a word
TypedTexts == {"", " ", "x"}

\* the settings form is edited (the text inputs and the service-type select
\* of the rich variant), then either gate is tried
NextGates ==
  \/ \E f \in {"churchName", "pastorName", "otherServiceType"} :
       \E v \in TypedTexts : EditRepField(f, v)
  \/ \E t \in SERVICE_TYPES : EditRepField("serviceType", t)
  \/ \E i \in Segments : OnSearch(i)
  \/ \E r \in 1..MaxCalls : SegmentResolve(r)
  \/ OnGenerateRep
  \/ \E r \in 1..MaxCalls : GenResolve(r)

SpecGates == Init /\ [][NextGates]_vars

\* C23: validateRepFields, which gates handleSearchSegment, accepts the
\* settings record if and only if the checks at the start of
\* handleGenerateRep let the full generation be dispatched.
C23_GatesAgree == validateRepFields <=> (GenerateRepGate = "")

\* the requests on a slot whose handler has not finished and whose token is the
\* slot's stored token
CurrentUnfinished(slot) == {r \in InFlight(slot) : calls[r].token = Token(slot)}

\* C24: in every reachable state of the rich variant a busy indicator that is
\* on has an unfinished request behind it whose token is the slot's stored
\* token: searchingStates[i] (and then the token is not 0), isPreparingSpeech
\* and isDownloading alike.
C24_BusyImpliesCurrentInFlight ==
  /\ \A i \in Segments :
       searchingStates[i]
         => (CurrentUnfinished(i) # {} /\ activeRequestsRef[i] # CancelToken)
  /\ isPreparingSpeech => CurrentUnfinished(SpeechSlot) # {}
  /\ isDownloading => CurrentUnfinished(DownloadSlot) # {}

\* a search is in flight and current while an earlier search of the same slot,
\* superseded, has not been answered yet
C24_Witness ==
  \E i \in Segments : \E r, q \in InFlight(i) :
    /\ r < q
    /\ searchingStates[i]
    /\ calls[r].token # activeRequestsRef[i]
    /\ calls[q].token = activeRequestsRef[i]

\* C25: in every reachable state isPreparingSpeech and isSpeaking are not both
\* true, over all interleavings of toggles, stops, speech responses, decode
\* completions, playback-ended callbacks and failures.
C25_SpeechPhasesExclusive == ~(isPreparingSpeech /\ isSpeaking)

\* playing was reached through the preparing phase, on the second of two speech
\* requests
C25_Witness ==
  /\ isSpeaking
  /\ ~isPreparingSpeech
  /\ \E r, q \in IdsOn(SpeechSlot) : r < q /\ audioSourceRef = q /\ q \in playing

\* C26: in every reachable state at most one audio source started by
\* handleToggleSpeech is playing, and whenever one is playing isSpeaking is
\* true and audioSourceRef refers to it, for every interleaving of toggles,
\* cancels and late responses, a stop followed by a new toggle at the same
\* clock reading included.
C26_AtMostOnePlayback ==
  /\ Cardinality(playing) <= 1
  /\ \A r \in playing : isSpeaking /\ audioSourceRef = r

\* the generations whose response has been applied
AppliedGen == {r \in DOMAIN calls : calls[r].kind \in GenKinds /\ calls[r].pc = "done"}

\* C27: in every reachable state of both variants the displayed prayer text
\* and the displayed sources come from the same generation response, and
\* while the view is REP_RESULT (FUN_RESULT) the displayed text was produced
\* by a representative (funeral) generation, for every interleaving of
\* generate, cancel-loading, view changes and late responses.
C27_DisplayedResultConsistent ==
  /\ \/ generatedPrayer = NoText /\ sources = NoText
     \/ \E r \in AppliedGen :
          generatedPrayer = ResponseText(r) /\ sources = SourcesOf(r)
  /\ view = "REP_RESULT"
       => \E r \in AppliedGen :
            calls[r].kind = "rep" /\ generatedPrayer = ResponseText(r)
  /\ view = "FUN_RESULT"
       => \E r \in AppliedGen :
            calls[r].kind = "fun" /\ generatedPrayer = ResponseText(r)

\* a representative generation answered late, after a funeral generation begun
\* later had displayed its result: the view, the text and the sources are
\* those of the representative one
C27_Witness ==
  \E r, q \in AppliedGen :
    /\ r < q
    /\ calls[r].kind = "rep" /\ calls[q].kind = "fun"
    /\ view = "REP_RESULT"
    /\ generatedPrayer = ResponseText(r) /\ sources = SourcesOf(r)

\* ============================================================== file reads
\* the files of one selection, drop or paste
FileSelections == UNION {[1..n -> AttachmentPool] : n \in 1..MaxReaders}

\* an update computed from the list the handler saw when the files were chosen
AppendToCaptured(prev, captured, att) == captured \o <<att>>

\* lines 1508 and 1568, App.tsx lines 423 and 425: the functional update
\* prev => ({...prev, attachments: [...(prev.attachments || []), att]})
AppendToPrev(prev, captured, att) == prev \o <<att>>

\* what the file handlers leave alone
ReadFrame ==
  /\ alertMsg' = ""
  /\ UNCHANGED <<variant, appVars, serviceVars, wavVars, sttVars>>

\* lines 703-718 (input), 721-738 (paste), 758-773 (drop), App.tsx lines
\* 327-339: one FileReader per file, each started with readAsDataURL
handleFileChange(target, files) ==
  /\ Len(readers) + Len(files) <= MaxReaders
  /\ readers' = readers \o
       [k \in 1..Len(files) |->
          [target |-> target, file |-> files[k],
           captured |-> AttachmentsOf(target), status |-> "reading"]]
  /\ UNCHANGED <<repAttachments, funAttachments>>
  /\ ReadFrame

\* reader.onloadend of reader k: with a data URL as result the file is handed
\* to onAttachment (rich) / handleFileAttachment (simple); after a failed read
\* the result is null and nothing is attached
onloadend(k, ok) ==
  /\ k \in DOMAIN readers
  /\ readers[k].status = "reading"
  /\ readers' = [readers EXCEPT ![k].status = IF ok THEN "loaded" ELSE "failed"]
  /\ IF ok
       THEN SetAttachments(readers[k].target,
                           AppendToPrev(AttachmentsOf(readers[k].target),
                                        readers[k].captured, readers[k].file))
       ELSE UNCHANGED <<repAttachments, funAttachments>>
  /\ ReadFrame

NextReads ==
  \/ \E target \in PrayerTypes, files \in FileSelections : handleFileChange(target, files)
  \/ \E k \in 1..MaxReaders, ok \in BOOLEAN : onloadend(k, ok)
  \/ \E target \in PrayerTypes, idx \in 0..(MaxReaders - 1) : onImageRemove(target, idx)
  \/ \E target \in PrayerTypes : onClearAttachments(target)
  \/ \E target \in PrayerTypes, idx \in 0..(MaxReaders - 1) :
       handleFileRemoval(target, idx)
  \/ \E v \in Texts : EditRepField("churchName", v)

SpecReads == InitAttach /\ [][NextReads]_vars

\* the readers of a target whose read has completed with a result
Loaded(target) ==
  {k \in DOMAIN readers : readers[k].target = target /\ readers[k].status = "loaded"}

\* list a is list b with elements added at its end
IsPrefix(a, b) == Len(a) <= Len(b) /\ \A k \in DOMAIN a : a[k] = b[k]

\* C28: each file whose read completes is appended to its attachment list
\* exactly once, whatever the order in which the reads complete; a step that
\* is not a removal keeps every attachment already in the list, so the list
\* contains every completed file not removed afterwards.
C28_NoLostAttachment ==
  /\ [][\A k \in DOMAIN readers :
          (readers[k].status = "reading" /\ readers'[k].status = "loaded")
            => AttachmentsOf(readers[k].target)'
                 = AttachmentsOf(readers[k].target) \o <<readers[k].file>>]_vars
  /\ [][\A k \in DOMAIN readers :
          readers[k].status # "reading" => readers'[k].status = readers[k].status]_vars
  /\ [][\A target \in PrayerTypes :
          Len(AttachmentsOf(target)') >= Len(AttachmentsOf(target))
            => IsPrefix(AttachmentsOf(target), AttachmentsOf(target)')]_vars
  /\ [][\A target \in PrayerTypes :
          Len(AttachmentsOf(target)') > Len(AttachmentsOf(target))
            => Cardinality(Loaded(target)') = Cardinality(Loaded(target)) + 1]_vars

\* two files chosen at once were read in the reverse order and both are in the
\* list, the second file first
C28_Witness ==
  \E target \in PrayerTypes :
    /\ Len(readers) = 2
    /\ \A k \in DOMAIN readers :
         readers[k].target = target /\ readers[k].status = "loaded"
    /\ readers[1].captured = readers[2].captured
    /\ readers[1].file # readers[2].file
    /\ AttachmentsOf(target) = <<readers[2].file, readers[1].file>>

\* this step is recognition k's onresult changing the field
IsTranscriptOf(k) ==
  /\ recognitions[k].status = "listening"
  /\ recognitions'[k].status = "stopping"
  /\ sttValue' # sttValue

\* C29: in every speech-input entry point the transcript is appended to the
\* value the field has when the result arrives, so edits made between the
\* start of recognition and its result are preserved.
C29_TranscriptAppendedToCurrentValue ==
  [][\A k \in DOMAIN recognitions :
       IsTranscriptOf(k) => sttValue' = Append(sttValue, Transcript)]_vars

\* C30: in every speech-input entry point, a press of the microphone control
\* while the listening indicator is on turns the indicator off, and no
\* transcript of a recognition that was running then is applied to the field
\* afterwards.
C30_StopDiscardsRecognition ==
  /\ [][(activated' /\ isListening) => ~isListening']_vars
  /\ [][\A k \in DOMAIN recognitions :
          recognitions[k].stopped => ~IsTranscriptOf(k)]_vars

====
